---------------------------- MODULE Spec2Model ----------------------------
(***************************************************************************)
(* A model of the defector collection server (cmd/server/server.go): the   *)
(* work ledger, the worker registry, the completed counter, the result     *)
(* files on disk, the Work RPC handler, the loader in main and the         *)
(* progress goroutine.                                                     *)
(*                                                                         *)
(* Go strings and byte slices are sequences: a string is a sequence of     *)
(* one-character strings ("a-0" is <<"a", "-", "0">>), a payload is a      *)
(* sequence of byte values.                                                *)
(***************************************************************************)
EXTENDS Integers, Sequences, FiniteSets, TLC

(***************************************************************************)
(* Bounds of the model.                                                    *)
(***************************************************************************)
\* done is an unbounded int in the code; a call of Work with a result that
\* can be counted is not taken once it is here.
MaxDone == 3
\* the number of times the server process is stopped and started again.
MaxRestarts == 1

(***************************************************************************)
(* Strings.                                                                *)
(***************************************************************************)
EmptyStr == << >>

\* strings.HasPrefix(s, p)
HasPrefix(s, p) ==
    /\ Len(s) >= Len(p)
    /\ SubSeq(s, 1, Len(p)) = p

\* s[n:]
Drop(s, n) == SubSeq(s, n + 1, Len(s))

WwwDot == <<"w", "w", "w", ".">>

\* server.go 174-179: the URL put back after a too short result.
ToggleWwwKeep(url) == url
ToggleWwwStrip3(url) ==
    IF HasPrefix(url, WwwDot) THEN Drop(url, 3) ELSE WwwDot \o url
ToggleWww(url) ==
    IF HasPrefix(url, WwwDot) THEN Drop(url, 4) ELSE WwwDot \o url

\* strconv.Itoa for n >= 0: the decimal digits of n.
Digit(d) == <<"0", "1", "2", "3", "4", "5", "6", "7", "8", "9">>[d + 1]

RECURSIVE Itoa(_)
Itoa(n) == IF n < 10 THEN <<Digit(n)>> ELSE Itoa(n \div 10) \o <<Digit(n % 10)>>

(***************************************************************************)
(* path.Clean and path.Join, on "/"-separated strings.                     *)
(***************************************************************************)
\* the "/"-separated components of s, empty ones included.
RECURSIVE SplitSlash(_)
SplitSlash(s) ==
    IF \A i \in 1..Len(s) : s[i] # "/"
    THEN <<s>>
    ELSE LET k == CHOOSE i \in 1..Len(s) :
                      s[i] = "/" /\ \A j \in 1..(i - 1) : s[j] # "/"
         IN  <<SubSeq(s, 1, k - 1)>> \o SplitSlash(Drop(s, k))

RECURSIVE JoinSlash(_)
JoinSlash(segs) ==
    IF segs = << >> THEN EmptyStr
    ELSE IF Len(segs) = 1 THEN segs[1]
    ELSE segs[1] \o <<"/">> \o JoinSlash(Tail(segs))

DotDot == <<".", ".">>

\* path.Clean's loop over the components: out is the output so far (a stack
\* of components), of which the leading ".." components cannot be removed.
RECURSIVE CleanSegs(_, _, _)
CleanSegs(segs, out, rooted) ==
    IF segs = << >> THEN out
    ELSE LET seg == Head(segs)
             rest == Tail(segs)
         IN  IF seg = EmptyStr \/ seg = <<".">>
             THEN CleanSegs(rest, out, rooted)
             ELSE IF seg = DotDot
             THEN IF out # << >> /\ out[Len(out)] # DotDot
                  THEN CleanSegs(rest, SubSeq(out, 1, Len(out) - 1), rooted)
                  ELSE IF rooted
                       THEN CleanSegs(rest, out, rooted)
                       ELSE CleanSegs(rest, Append(out, DotDot), rooted)
             ELSE CleanSegs(rest, Append(out, seg), rooted)

\* path.Clean(p)
PathClean(p) ==
    IF p = EmptyStr THEN <<".">>
    ELSE LET rooted == p[1] = "/"
             out == CleanSegs(SplitSlash(p), << >>, rooted)
         IN  IF rooted THEN <<"/">> \o JoinSlash(out)
             ELSE IF out = << >> THEN <<".">>
             ELSE JoinSlash(out)

\* path.Join(a, b): the non-empty elements joined by "/", then cleaned.
PathJoin(a, b) ==
    IF a = EmptyStr /\ b = EmptyStr THEN EmptyStr
    ELSE IF a = EmptyStr THEN PathClean(b)
    ELSE IF b = EmptyStr THEN PathClean(a)
    ELSE PathClean(a \o <<"/">> \o b)

\* the -f and -o flags' defaults (server.go 42, 46)
datadir == <<"d", "a", "t", "a">>
outputSuffix == <<".", "p", "c", "a", "p">>

\* server.go 219-221
outputFileName(id) == PathJoin(datadir, PathClean(id) \o outputSuffix)

(***************************************************************************)
(* net/url as main uses it (server.go 77, 88-97), for locators made of     *)
(* letters, digits and "+-.:/" (no query, fragment, userinfo or escapes).  *)
(***************************************************************************)
LowerLetters ==
    <<"a", "b", "c", "d", "e", "f", "g", "h", "i", "j", "k", "l", "m",
      "n", "o", "p", "q", "r", "s", "t", "u", "v", "w", "x", "y", "z">>
UpperLetters ==
    <<"A", "B", "C", "D", "E", "F", "G", "H", "I", "J", "K", "L", "M",
      "N", "O", "P", "Q", "R", "S", "T", "U", "V", "W", "X", "Y", "Z">>

\* url.getScheme: 'a' <= c && c <= 'z' || 'A' <= c && c <= 'Z'
Letters ==
    { LowerLetters[k] : k \in 1..26 } \cup { UpperLetters[k] : k \in 1..26 }

\* strings.ToLower on these strings
ToLower(s) ==
    [i \in 1..Len(s) |->
        IF \E k \in 1..26 : UpperLetters[k] = s[i]
        THEN LowerLetters[CHOOSE k \in 1..26 : UpperLetters[k] = s[i]]
        ELSE s[i]]

Digits == {"0", "1", "2", "3", "4", "5", "6", "7", "8", "9"}

SchemeOther == {"0", "1", "2", "3", "4", "5", "6", "7", "8", "9", "+", "-", "."}

\* url.getScheme: [ok, scheme, rest], scanning rawurl from position i.
RECURSIVE GetScheme(_, _)
GetScheme(rawurl, i) ==
    IF i > Len(rawurl)
    THEN [ok |-> TRUE, scheme |-> EmptyStr, rest |-> rawurl]
    ELSE IF rawurl[i] \in Letters
    THEN GetScheme(rawurl, i + 1)
    ELSE IF rawurl[i] \in SchemeOther
    THEN IF i = 1
         THEN [ok |-> TRUE, scheme |-> EmptyStr, rest |-> rawurl]
         ELSE GetScheme(rawurl, i + 1)
    ELSE IF rawurl[i] = ":"
    THEN IF i = 1
         THEN [ok |-> FALSE, scheme |-> EmptyStr, rest |-> rawurl]
         ELSE [ok |-> TRUE, scheme |-> SubSeq(rawurl, 1, i - 1),
               rest |-> Drop(rawurl, i)]
    ELSE [ok |-> TRUE, scheme |-> EmptyStr, rest |-> rawurl]

\* the index of the first "/" of s, or 0.
IndexSlash(s) ==
    IF \A i \in 1..Len(s) : s[i] # "/" THEN 0
    ELSE CHOOSE i \in 1..Len(s) : s[i] = "/" /\ \A j \in 1..(i - 1) : s[j] # "/"

\* whether the first path segment of s holds a colon
ColonInFirstSegment(s) ==
    \E i \in 1..Len(s) : s[i] = ":" /\ \A j \in 1..(i - 1) : s[j] # "/"

SlashSlash == <<"/", "/">>

\* url.validOptionalPort on the part of the host from its last colon on:
\* the colon and then digits only
ValidOptionalPort(port) ==
    \/ port = EmptyStr
    \/ /\ port[1] = ":"
       /\ \A i \in 2..Len(port) : port[i] \in Digits

\* url.parseHost for hosts without "[": what follows the last colon of the
\* host is a port
ParseHostOk(host) ==
    IF \A i \in 1..Len(host) : host[i] # ":"
    THEN TRUE
    ELSE LET k == CHOOSE i \in 1..Len(host) :
                      host[i] = ":" /\ \A j \in (i + 1)..Len(host) : host[j] # ":"
         IN  ValidOptionalPort(Drop(host, k - 1))

\* url.Parse(rawurl): [ok, Scheme, Opaque, Host, Path, OmitHost]
UrlParse(rawurl) ==
    LET g == GetScheme(rawurl, 1)
        sch == ToLower(g.scheme)
        bad == [ok |-> FALSE, Scheme |-> EmptyStr, Opaque |-> EmptyStr,
                Host |-> EmptyStr, Path |-> EmptyStr, OmitHost |-> FALSE]
    IN  IF ~g.ok THEN bad
        ELSE IF ~HasPrefix(g.rest, <<"/">>) /\ sch # EmptyStr
        THEN [ok |-> TRUE, Scheme |-> sch, Opaque |-> g.rest,
              Host |-> EmptyStr, Path |-> EmptyStr, OmitHost |-> FALSE]
        ELSE IF ~HasPrefix(g.rest, <<"/">>) /\ ColonInFirstSegment(g.rest)
        THEN bad
        ELSE IF HasPrefix(g.rest, SlashSlash)
                 /\ (sch # EmptyStr \/ ~HasPrefix(g.rest, <<"/", "/", "/">>))
        THEN LET auth == Drop(g.rest, 2)
                 k == IndexSlash(auth)
                 host == IF k = 0 THEN auth ELSE SubSeq(auth, 1, k - 1)
             IN  IF ~ParseHostOk(host) THEN bad
                 ELSE [ok |-> TRUE, Scheme |-> sch, Opaque |-> EmptyStr,
                       Host |-> host,
                       Path |-> IF k = 0 THEN EmptyStr ELSE Drop(auth, k - 1),
                       OmitHost |-> FALSE]
        ELSE [ok |-> TRUE, Scheme |-> sch, Opaque |-> EmptyStr,
              Host |-> EmptyStr, Path |-> g.rest,
              OmitHost |-> sch # EmptyStr /\ HasPrefix(g.rest, <<"/">>)]

\* (*URL).String()
UrlString(u) ==
    LET head == IF u.Scheme # EmptyStr THEN u.Scheme \o <<":">> ELSE EmptyStr
        auth == IF u.Scheme # EmptyStr \/ u.Host # EmptyStr
                THEN IF u.OmitHost /\ u.Host = EmptyStr
                     THEN EmptyStr
                     ELSE (IF u.Host # EmptyStr \/ u.Path # EmptyStr
                           THEN SlashSlash ELSE EmptyStr) \o u.Host
                ELSE EmptyStr
        slash == IF u.Path # EmptyStr /\ u.Path[1] # "/" /\ u.Host # EmptyStr
                 THEN <<"/">> ELSE EmptyStr
        dot == IF head \o auth \o slash = EmptyStr /\ ColonInFirstSegment(u.Path)
               THEN <<".", "/">> ELSE EmptyStr
    IN  IF u.Opaque # EmptyStr THEN head \o u.Opaque
        ELSE head \o auth \o slash \o dot \o u.Path

\* the -scheme flag's default (server.go 43)
scheme == <<"h", "t", "t", "p">>

\* server.go 88-91, 97: the URL of a work item, from the page's column.
PageURL(raw) ==
    LET page == UrlParse(raw)
    IN  UrlString(IF page.Scheme = EmptyStr
                  THEN [page EXCEPT !.Scheme = scheme]
                  ELSE page)

(***************************************************************************)
(* The pages file: csv.NewReader(f).ReadAll() (server.go 71-72), for a     *)
(* Reader with its default settings (Comma ',', no Comment, FieldsPerRecord*)
(* 0, LazyQuotes and TrimLeadingSpace false).  The file is a string.       *)
(***************************************************************************)
\* bytes.IndexByte(s, c), counted from 1: 0 when c is not in s
IndexByte(s, c) ==
    LET S == { i \in 1..Len(s) : s[i] = c }
    IN  IF S = {} THEN 0 ELSE CHOOSE i \in S : \A j \in S : i <= j

\* lengthNL(s)
LengthNL(s) == IF Len(s) > 0 /\ s[Len(s)] = "\n" THEN 1 ELSE 0

\* Reader.readLine on the unread input in: the line with its "\n", a "\r\n"
\* at its end made "\n", and a "\r" at the end of the file dropped
ReadLine(in) ==
    IF in = EmptyStr
    THEN [line |-> EmptyStr, rest |-> EmptyStr, eof |-> TRUE]
    ELSE LET i == IndexByte(in, "\n")
             raw == IF i = 0 THEN in ELSE SubSeq(in, 1, i)
             n == Len(raw)
         IN  [line |-> IF i = 0 /\ raw[n] = "\r"
                       THEN SubSeq(raw, 1, n - 1)
                       ELSE IF n >= 2 /\ raw[n - 1] = "\r" /\ raw[n] = "\n"
                       THEN Append(SubSeq(raw, 1, n - 2), "\n")
                       ELSE raw,
              rest |-> IF i = 0 THEN EmptyStr ELSE Drop(in, i),
              eof |-> FALSE]

\* Reader.readRecord's loop parseField: the fields of the record that
\* begins with line, with in the input after that line and fields the ones
\* read so far.  Outside a quoted field (quoted is FALSE) a field that does
\* not begin with a quote ends at the next comma or at the end of the line,
\* and holds no quote.  A field that begins with a quote, of which field was
\* read so far (quoted is TRUE), runs to the next quote that is not doubled,
\* over the ends of lines, and a comma or the end of the line follows it.
\* (l, n, fs and fd are the values of the arguments.)
RECURSIVE ParseField(_, _, _, _, _)
ParseField(line, in, fields, field, quoted) ==
    CHOOSE result \in
      { IF ~quoted
        THEN IF Len(l) = 0 \/ l[1] # "\""
             THEN LET i == IndexByte(l, ",")
                      f == IF i > 0 THEN SubSeq(l, 1, i - 1)
                           ELSE SubSeq(l, 1, Len(l) - LengthNL(l))
                  IN  IF IndexByte(f, "\"") > 0
                      THEN [err |-> "ErrBareQuote", fields |-> << >>,
                            rest |-> n]
                      ELSE IF i > 0
                      THEN ParseField(Drop(l, i), n, Append(fs, f),
                                      EmptyStr, FALSE)
                      ELSE [err |-> "nil", fields |-> Append(fs, f),
                            rest |-> n]
             ELSE ParseField(Drop(l, 1), n, fs, EmptyStr, TRUE)
        ELSE LET i == IndexByte(l, "\"")
             IN  IF i > 0
                 THEN LET f == fd \o SubSeq(l, 1, i - 1)
                          after == Drop(l, i)
                      IN  IF Len(after) > 0 /\ after[1] = "\""
                          THEN ParseField(Drop(after, 1), n, fs,
                                          Append(f, "\""), TRUE)
                          ELSE IF Len(after) > 0 /\ after[1] = ","
                          THEN ParseField(Drop(after, 1), n, Append(fs, f),
                                          EmptyStr, FALSE)
                          ELSE IF LengthNL(after) = Len(after)
                          THEN [err |-> "nil", fields |-> Append(fs, f),
                                rest |-> n]
                          ELSE [err |-> "ErrQuote", fields |-> << >>,
                                rest |-> n]
                 ELSE IF Len(l) > 0
                 THEN ParseField(ReadLine(n).line, ReadLine(n).rest, fs,
                                 fd \o l, TRUE)
                 ELSE [err |-> "ErrQuote", fields |-> << >>, rest |-> n]
        : l \in {line}, n \in {in}, fs \in {fields}, fd \in {field} } :
      TRUE

\* Reader.readRecord: empty lines are passed over (r is the line read)
RECURSIVE ReadRecord(_)
ReadRecord(in) ==
    CHOOSE result \in
      { IF r.eof THEN [err |-> "EOF", fields |-> << >>, rest |-> r.rest]
        ELSE IF Len(r.line) = LengthNL(r.line) THEN ReadRecord(r.rest)
        ELSE ParseField(r.line, r.rest, << >>, EmptyStr, FALSE)
        : r \in {ReadLine(in)} } :
      TRUE

\* Reader.ReadAll's loop: records are the records read so far and n the
\* number of fields of the first (FieldsPerRecord), 0 before it is read
\* (r is the record read, rs the value of records)
RECURSIVE ReadRecords(_, _, _)
ReadRecords(in, n, records) ==
    CHOOSE result \in
      { IF r.err = "EOF" THEN [err |-> "nil", records |-> rs]
        ELSE IF r.err # "nil" THEN [err |-> r.err, records |-> << >>]
        ELSE IF n > 0 /\ Len(r.fields) # n
        THEN [err |-> "ErrFieldCount", records |-> << >>]
        ELSE ReadRecords(r.rest, Len(r.fields), Append(rs, r.fields))
        : r \in {ReadRecord(in)}, rs \in {records} } :
      TRUE

\* Reader.ReadAll on a file that holds text
ReadAll(text) == ReadRecords(text, 0, << >>)

\* what flag.Arg(0) names, by kind: "none" (no argument is given),
\* "missing" (no file that can be opened), "dir" (a directory: it is opened,
\* and reading it fails) or "text" (a file that holds text).  The server
\* only reads it: its name does not end in the output suffix, so no result
\* file is this file, and it is the same for every start of the server.
PagesFile(kind, text) == [kind |-> kind, text |-> text]

\* server.go 56-75: main's way to its variable pages, and the error that
\* ends it before ("nil" for none)
ReadPages(file) ==
    IF file.kind = "none" THEN [err |-> "no argument", pages |-> << >>]
    ELSE IF file.kind = "missing" THEN [err |-> "open", pages |-> << >>]
    ELSE IF file.kind = "dir" THEN [err |-> "read", pages |-> << >>]
    ELSE LET r == ReadAll(file.text)
         IN  [err |-> r.err, pages |-> r.records]

(***************************************************************************)
(* The inputs of the model: the pages file and flags the server is started *)
(* with, and what a client may send.                                       *)
(***************************************************************************)
StrA == <<"a">>
StrB == <<"b">>
UrlACom == <<"a", ".", "c", "o", "m">>
UrlWwwACom == WwwDot \o UrlACom
UrlBOrg == <<"h", "t", "t", "p", "s", ":", "/", "/", "b", ".", "o", "r", "g">>
UrlBad == <<":", "a">>

\* a row of the pages file: pages[i][0] and pages[i][1]
Row(id, url) == <<id, url>>

\* the text of a pages file with a line for each of rows
RECURSIVE PagesText(_)
PagesText(rows) ==
    IF rows = << >> THEN EmptyStr
    ELSE Head(rows)[1] \o <<",">> \o Head(rows)[2] \o <<"\n">>
            \o PagesText(Tail(rows))

\* the -t flag's default (server.go 40)
DefaultTimeout == 15

\* a run's command line and surroundings: the pages file, -s, -m, -t, -a,
\* and whether the port can be listened on (server.go 115); pages is what
\* main's variable pages holds once the file is read (server.go 72)
ConfigOf(file, s, m, a, listen) ==
    [file |-> file, pages |-> ReadPages(file).pages, samples |-> s,
     minDataLen |-> m, timeout |-> DefaultTimeout, alltraffic |-> a,
     listen |-> listen]

\* a run with a pages file of the rows pages, and a port that is free
Config(pages, s, m, a) ==
    ConfigOf(PagesFile("text", PagesText(pages)), s, m, a, TRUE)

\* a row identifier whose unit id, with the output suffix, is a file name
\* of more than 255 bytes
LongName == [i \in 1..251 |-> "a"]

\* the command lines of the model.  Besides the pages files of rows there
\* are: the rows a and b with quoted fields, an empty line, a line that ends
\* in "\r\n" and no end of the last line; no argument, no file and a
\* directory; a second line of one field; a quote inside a field; a quote
\* that is not closed; a line of one field; a file without a line; and a
\* port that is taken.
Configs ==
    LET RowA == PagesText(<<Row(StrA, UrlACom)>>)
        Quoted == <<"\"">> \o StrA \o <<"\"", ",">> \o UrlACom
                      \o <<"\r", "\n", "\n">>
                      \o StrB \o <<",", "\"">> \o UrlBOrg \o <<"\"">>
        Uneven == RowA \o StrB \o <<"\n">>
        BareQuote == StrA \o <<",", "a", "\"">> \o UrlACom \o <<"\n">>
        OpenQuote == <<"\"">> \o StrA \o <<",">> \o UrlACom \o <<"\n">>
        OneField == StrA \o <<"\n">>
    IN  { Config(<<Row(StrA, UrlACom)>>, 1, 2, FALSE),
          ConfigOf(PagesFile("text", Quoted), 1, 2, TRUE, TRUE),
          Config(<<Row(StrA, UrlACom), Row(StrA, UrlWwwACom)>>, 1, 2, FALSE),
          Config(<<Row(StrA, UrlACom)>>, 1, 0, FALSE),
          Config(<<Row(StrA, UrlACom), Row(StrB, UrlBad)>>, 1, 2, FALSE),
          Config(<<Row(LongName, UrlACom)>>, 1, 2, FALSE),
          ConfigOf(PagesFile("none", EmptyStr), 1, 2, FALSE, TRUE),
          ConfigOf(PagesFile("missing", EmptyStr), 1, 2, FALSE, TRUE),
          ConfigOf(PagesFile("dir", EmptyStr), 1, 2, FALSE, TRUE),
          ConfigOf(PagesFile("text", Uneven), 1, 2, FALSE, TRUE),
          ConfigOf(PagesFile("text", BareQuote), 1, 2, FALSE, TRUE),
          ConfigOf(PagesFile("text", OpenQuote), 1, 2, FALSE, TRUE),
          ConfigOf(PagesFile("text", OneField), 1, 2, FALSE, TRUE),
          ConfigOf(PagesFile("text", EmptyStr), 1, 2, FALSE, TRUE),
          ConfigOf(PagesFile("text", RowA), 1, 2, FALSE, FALSE) }

\* the connections of clients, one per client process, and the identity
\* the process reports as WorkerID in all its calls (part_003 lines 112-119:
\* its start time and addresses, here a name per process; a client started
\* again is another process, with another identity)
Conns == {"c1", "c2"}
Identity(conn) == IF conn = "c1" THEN <<"w", "1">> ELSE <<"w", "2">>

\* payloads a client may send
DataInputs == { << >>, <<7, 8>> }

\* the command line of the end-to-end scenario (-m 10), and the payloads of
\* 5 and of 12 bytes its client sends
ScenarioMinDataLen == 10
ConfigsScenario == { Config(<<Row(StrA, UrlACom)>>, 1, ScenarioMinDataLen, FALSE) }
Bytes5 == <<1, 2, 3, 4, 5>>
Bytes12 == <<1, 2, 3, 4, 5, 6, 7, 8, 9, 10, 11, 12>>
DataScenario == { Bytes5, Bytes12 }

(***************************************************************************)
(* The state.                                                              *)
(***************************************************************************)
VARIABLES
    cfg,        \* the command line of the run (flags and pages file)
    files,      \* the file system: path -> content
    work,       \* server.go 49: id -> item
    workers,    \* server.go 50: WorkerID -> WorkerID
    done,       \* server.go 51
    phase,      \* the server process: "serving", "exited" (os.Exit(0)),
                \* "fatal" (log.Fatal), "panic" (a run-time panic)
    held,       \* per client: work.Browse, the Browse it reports next
    reply,      \* per client: the answer of Work on its way to it
    runs,       \* how many times the server process was started again
    last,       \* the last call of Work: its request, response and effects
    lock,       \* server.go 48: "" when free, else the goroutine holding it
    pc,         \* per connection: where its Work goroutine is
    req,        \* per connection: the request its Work goroutine handles
    ppc,        \* where the progress goroutine is
    hist        \* of this run of the server: the ids whose result was
                \* accepted, the number of results main found on disk,
                \* the number of units main put in the ledger, and the
                \* ids Work returned and no too short result came for
                \* since, and the ids whose result was accepted while the
                \* ledger of a server started again held them

\* A function of the program applied on its own to an argument:
VARIABLES
    call        \* the function, its argument, its result so far and the
                \* number of times it was applied

VARIABLES
    pool        \* the extractor tool's run (extractdns.go 30-72): directory,
                \* workers, channel, WaitGroup and what was extracted

vars ==
    <<cfg, files, work, workers, done, phase, held, reply, runs, last, lock,
      pc, req, ppc, hist, call, pool>>

\* the goroutines' variables, which a whole call of Work leaves as they were
threads == <<lock, pc, req, ppc>>

EmptyMap == [x \in {} |-> x]

\* m with key k set to v (m[k] = v)
MapSet(m, k, v) == [x \in DOMAIN m \cup {k} |-> IF x = k THEN v ELSE m[x]]

\* delete(m, k)
MapDelete(m, k) == [x \in DOMAIN m \ {k} |-> m[x]]

\* pb.Browse
Browse(id, url, timeout, data, all) ==
    [ID |-> id, URL |-> url, Timeout |-> timeout, Data |-> data,
     AllTraffic |-> all]

NoBrowse == Browse(EmptyStr, EmptyStr, 0, << >>, FALSE)

\* item (server.go 34-37)
Item(id, url) == [ID |-> id, URL |-> url]

(***************************************************************************)
(* The disk, as os.Stat (server.go 93) and ioutil.WriteFile (209) see it.  *)
(* It is a map from the regular files to their contents; a file is keyed   *)
(* by its shortest name relative to the working directory ("data/a-0.pcap",*)
(* "a.pcap", "../a.pcap").  The directories are the ones the server is     *)
(* started with and never changes: the working directory, the directories  *)
(* above it up to the root, and datadir (main's os.MkdirAll, server.go     *)
(* 61).  All of them can be searched and written, and there are no         *)
(* symbolic links.                                                         *)
(***************************************************************************)
\* the working directory of the server process: its components from the
\* root down (datadir, "data", is relative to it, server.go 46)
Cwd == << <<"s", "r", "v">>, <<"v", "6">>, <<"r", "u", "n">> >>
DataDirPath == Append(Cwd, datadir)

\* the longest component and the length no path reaches (NAME_MAX, PATH_MAX)
NameMax == 255
PathMax == 4096

\* the byte 0 in a string
Nul == "\\0"

\* the components p are the first of the components q
IsPrefixOf(p, q) == Len(p) <= Len(q) /\ SubSeq(q, 1, Len(p)) = p

\* the absolute path p is a directory
IsDir(p) == IsPrefixOf(p, Cwd) \/ p = DataDirPath

\* the number of components the absolute path p shares with Cwd
CommonLen(p) ==
    CHOOSE n \in 0..Len(Cwd) :
        /\ IsPrefixOf(SubSeq(Cwd, 1, n), p)
        /\ \A m \in (n + 1)..Len(Cwd) : ~IsPrefixOf(SubSeq(Cwd, 1, m), p)

\* the shortest name of the absolute path p relative to Cwd
Rel(p) ==
    LET n == CommonLen(p)
    IN  JoinSlash([k \in 1..(Len(Cwd) - n) |-> DotDot]
                    \o SubSeq(p, n + 1, Len(p)))

\* the absolute path p is a regular file of disk fs
IsFile(fs, p) == ~IsDir(p) /\ Rel(p) \in DOMAIN fs

\* the kernel's walk along the components segs from the directory cur: the
\* error ("nil" for none), the path it came to, whether that is a
\* directory, and whether it is the last component of the name
RECURSIVE Walk(_, _, _)
Walk(fs, cur, segs) ==
    IF segs = << >>
    THEN [err |-> "nil", path |-> cur, dir |-> TRUE, last |-> TRUE]
    ELSE LET seg == Head(segs)
             rest == Tail(segs)
             nxt == Append(cur, seg)
         IN  IF seg = EmptyStr \/ seg = <<".">>
             THEN Walk(fs, cur, rest)
             ELSE IF seg = DotDot
             THEN Walk(fs, SubSeq(cur, 1, Len(cur) - 1), rest)
             ELSE IF Len(seg) > NameMax
             THEN [err |-> "ENAMETOOLONG", path |-> nxt, dir |-> FALSE,
                   last |-> rest = << >>]
             ELSE IF IsDir(nxt)
             THEN Walk(fs, nxt, rest)
             ELSE IF IsFile(fs, nxt)
             THEN [err |-> IF rest = << >> THEN "nil" ELSE "ENOTDIR",
                   path |-> nxt, dir |-> FALSE, last |-> rest = << >>]
             ELSE [err |-> "ENOENT", path |-> nxt, dir |-> FALSE,
                   last |-> rest = << >>]

\* the look-up of name that os.Stat and the open of ioutil.WriteFile begin
\* with
Lookup(fs, name) ==
    IF name = EmptyStr
    THEN [err |-> "ENOENT", path |-> Cwd, dir |-> FALSE, last |-> FALSE]
    ELSE IF \E i \in 1..Len(name) : name[i] = Nul
    THEN [err |-> "EINVAL", path |-> Cwd, dir |-> FALSE, last |-> FALSE]
    ELSE IF Len(name) >= PathMax
    THEN [err |-> "ENAMETOOLONG", path |-> Cwd, dir |-> FALSE, last |-> FALSE]
    ELSE Walk(fs, IF name[1] = "/" THEN << >> ELSE Cwd, SplitSlash(name))

\* server.go 93: the else branch, taken when os.Stat(outputFileName(id)) does
\* not fail with an error for which os.IsNotExist holds: the file is there,
\* or Stat fails with another error (a component of the path is a regular
\* file, a component is too long, the name holds a byte 0)
FileExists(fs, id) == Lookup(fs, outputFileName(id)).err # "ENOENT"

(***************************************************************************)
(* main: the loader (server.go 76-103).                                    *)
(***************************************************************************)
\* server.go 76-81: the loop over the rows from row i on: "nil" when it
\* comes to its end, "panic" at a row without a second field (pages[i][1],
\* index out of range), "fatal" at a row whose second field does not parse
\* as a URL
RECURSIVE Validate(_, _)
Validate(pages, i) ==
    IF i > Len(pages) THEN "nil"
    ELSE IF Len(pages[i]) < 2 THEN "panic"
    ELSE IF ~UrlParse(pages[i][2]).ok THEN "fatal"
    ELSE Validate(pages, i + 1)

PagesParseFirstRow(pages) ==
    IF pages = << >> THEN "nil" ELSE Validate(<<pages[1]>>, 1)
PagesParse(pages) == Validate(pages, 1)

\* server.go 92
UnitId(pages, i, s) == pages[i][1] \o <<"-">> \o Itoa(s)

\* server.go 86-103: the loops over s and i, from sample s and row i (from
\* 1) on, with w the work map and d the done counter so far.
RECURSIVE CreateWork(_, _, _, _, _, _, _)
CreateWork(pages, samples, fs, s, i, w, d) ==
    IF s >= samples THEN [work |-> w, done |-> d]
    ELSE IF i > Len(pages) THEN CreateWork(pages, samples, fs, s + 1, 1, w, d)
    ELSE LET id == UnitId(pages, i, s)
         IN  IF ~FileExists(fs, id)
             THEN CreateWork(pages, samples, fs, s, i + 1,
                             MapSet(w, id, Item(id, PageURL(pages[i][2]))), d)
             ELSE CreateWork(pages, samples, fs, s, i + 1, w, d + 1)

Load(c, fs) == CreateWork(c.pages, c.samples, fs, 0, 1, EmptyMap, 0)

\* server.go 123
Total(c) == Len(c.pages) * c.samples

\* the ids main derives from the pages file
TableIds(c) ==
    { UnitId(c.pages, i, s) : i \in 1..Len(c.pages), s \in 0..(c.samples - 1) }

\* no function is applied on its own
NoCall == [fn |-> "none", arg |-> EmptyStr, res |-> EmptyStr, n |-> 0]

\* no answer is on its way to the client
NoReply == [none |-> TRUE]

LastNone ==
    [op |-> "start", in |-> NoBrowse, out |-> NoBrowse, err |-> FALSE,
     mid |-> EmptyMap]

\* main up to where it serves (server.go 54-119) for command line c on disk
\* fs: it ends when no pages file is named (56-58), the file cannot be
\* opened (67-70) or read (71-75), a row has no target or one that does not
\* parse (76-81), all of them before it has made its work; else it creates
\* its work (84-103), and then ends when the port cannot be listened on
\* (115-118), with the work it has created, or serves.  os.MkdirAll (61)
\* succeeds: on the disk of the model datadir is a directory.
Main(c, fs) ==
    LET Ended(how) == [work |-> EmptyMap, done |-> 0, phase |-> how]
    IN  IF ReadPages(c.file).err # "nil" THEN Ended("fatal")
        ELSE IF PagesParse(c.pages) # "nil" THEN Ended(PagesParse(c.pages))
        ELSE [work |-> Load(c, fs).work, done |-> Load(c, fs).done,
              phase |-> IF c.listen THEN "serving" ELSE "fatal"]

\* the state of a process that main has just started on disk fs
Started(c, fs) ==
    /\ work' = Main(c, fs).work
    /\ done' = Main(c, fs).done
    /\ phase' = Main(c, fs).phase

InitServer ==
    /\ cfg \in Configs \cup ConfigsScenario
    /\ files = EmptyMap
    /\ workers = EmptyMap
    /\ work = Main(cfg, files).work
    /\ done = Main(cfg, files).done
    /\ phase = Main(cfg, files).phase
    /\ held = [c \in Conns |-> NoBrowse]
    /\ reply = [c \in Conns |-> NoReply]
    /\ runs = 0
    /\ last = LastNone
    /\ lock = ""
    /\ pc = [c \in Conns |-> "idle"]
    /\ req = [c \in Conns |-> NoBrowse]
    /\ ppc = "sleep"
    /\ hist = [accepted |-> {}, found |-> done,
               seeded |-> Cardinality(DOMAIN work), returned |-> {},
               recreated |-> {}]

\* no extractor tool runs
NoPool == [mpc |-> "none"]

Init == InitServer /\ cfg \in Configs /\ call = NoCall /\ pool = NoPool

(***************************************************************************)
(* store (server.go 207-217).                                              *)
(***************************************************************************)
\* ioutil.WriteFile(name, data, 0666): the file systems and errors it can
\* end with.  It creates or truncates the file name leads to, writes and
\* closes: a failure to open leaves the disk alone (the only outcome when
\* the look-up fails before the last component, the name is a directory or
\* the last component cannot be a name), a failure of Write leaves a
\* prefix of data in the file, a failure of Close after the whole Write
\* leaves all of data.
WriteFile(fs, name, data) ==
    LET r == Lookup(fs, name)
        file == Rel(r.path)
    IN  IF (r.err = "nil" /\ ~r.dir) \/ (r.err = "ENOENT" /\ r.last)
        THEN { [files |-> MapSet(fs, file, data), err |-> FALSE],
               [files |-> fs, err |-> TRUE] }
             \cup { [files |-> MapSet(fs, file, SubSeq(data, 1, k)),
                     err |-> TRUE] : k \in 0..Len(data) }
        ELSE { [files |-> fs, err |-> TRUE] }

\* store(in) on disk fs with counter d: the outcomes [files, done, err]
StoreNoCount(fs, d, in) ==
    IF Len(in.Data) > 0
    THEN { [files |-> w.files, err |-> w.err, done |-> d] :
             w \in WriteFile(fs, outputFileName(in.ID), in.Data) }
    ELSE { [files |-> fs, err |-> FALSE, done |-> d] }
StoreWritesEmpty(fs, d, in) ==
    { [files |-> w.files, err |-> w.err,
       done |-> IF w.err THEN d ELSE d + 1] :
         w \in WriteFile(fs, outputFileName(in.ID), in.Data) }
StoreCountsFirst(fs, d, in) ==
    IF Len(in.Data) > 0
    THEN { [files |-> w.files, err |-> w.err, done |-> d + 1] :
             w \in WriteFile(fs, outputFileName(in.ID), in.Data) }
    ELSE { [files |-> fs, err |-> FALSE, done |-> d + 1] }
Store(fs, d, in) ==
    IF Len(in.Data) > 0
    THEN { [files |-> w.files, err |-> w.err,
            done |-> IF w.err THEN d ELSE d + 1] :
             w \in WriteFile(fs, outputFileName(in.ID), in.Data) }
    ELSE { [files |-> fs, err |-> FALSE, done |-> d + 1] }

(***************************************************************************)
(* server.Work (server.go 145-205), the whole handler under the lock.      *)
(***************************************************************************)
\* server.go 151-156
Register(ws, id) == IF id \in DOMAIN ws THEN ws ELSE MapSet(ws, id, id)

\* server.go 160: the result is long enough to be accepted
AcceptableStrict(c, in) == Len(in.Data) > c.minDataLen
Acceptable(c, in) == Len(in.Data) >= c.minDataLen

\* server.go 159-187, "completed work?": the outcomes
\* [files, work, done, err, stored] of the intake of in.
IntakeNoIdTest(c, fs, w, d, in) ==
    IF Acceptable(c, in)
    THEN { [files |-> st.files, done |-> st.done, err |-> st.err,
            stored |-> TRUE,
            work |-> IF ~st.err /\ in.ID \in DOMAIN w
                     THEN MapDelete(w, in.ID) ELSE w] :
             st \in Store(fs, d, in) }
    ELSE { [files |-> fs, done |-> d, err |-> FALSE, stored |-> FALSE,
            work |-> MapSet(w, in.ID, Item(in.ID, ToggleWww(in.URL)))] }
IntakeKeyedByURL(c, fs, w, d, in) ==
    IF in.ID = EmptyStr
    THEN { [files |-> fs, work |-> w, done |-> d, err |-> FALSE,
            stored |-> FALSE] }
    ELSE IF Acceptable(c, in)
    THEN { [files |-> st.files, done |-> st.done, err |-> st.err,
            stored |-> TRUE,
            work |-> IF ~st.err /\ in.ID \in DOMAIN w
                     THEN MapDelete(w, in.ID) ELSE w] :
             st \in Store(fs, d, in) }
    ELSE { [files |-> fs, done |-> d, err |-> FALSE, stored |-> FALSE,
            work |-> MapSet(w, in.URL, Item(in.ID, ToggleWww(in.URL)))] }
Intake(c, fs, w, d, in) ==
    IF in.ID = EmptyStr
    THEN { [files |-> fs, work |-> w, done |-> d, err |-> FALSE,
            stored |-> FALSE] }
    ELSE IF Acceptable(c, in)
    THEN { [files |-> st.files, done |-> st.done, err |-> st.err,
            stored |-> TRUE,
            work |-> IF ~st.err /\ in.ID \in DOMAIN w
                     THEN MapDelete(w, in.ID) ELSE w] :
             st \in Store(fs, d, in) }
    ELSE { [files |-> fs, done |-> d, err |-> FALSE, stored |-> FALSE,
            work |-> MapSet(w, in.ID, Item(in.ID, ToggleWww(in.URL)))] }

\* server.go 190-198, "find work": the answers [out, work] for work map w;
\* the iteration order of a Go map is not specified, so any entry may be
\* the one returned, and the deferred delete removes its key.
FindWorkKeep(c, w) ==
    { [out |-> Browse(w[id].ID, w[id].URL, c.timeout, << >>, c.alltraffic),
       work |-> w] : id \in DOMAIN w }
FindWork(c, w) ==
    { [out |-> Browse(w[id].ID, w[id].URL, c.timeout, << >>, c.alltraffic),
       work |-> MapDelete(w, id)] : id \in DOMAIN w }

\* server.go 201-204, "no work right now"
NoWorkZero(c) == Browse(EmptyStr, EmptyStr, 0, << >>, FALSE)
NoWork(c) == Browse(EmptyStr, EmptyStr, c.timeout, << >>, FALSE)

\* server.go 189-204: the answers [out, work] of the assignment
Assign(c, w) ==
    IF DOMAIN w # {} THEN FindWork(c, w) ELSE { [out |-> NoWork(c), work |-> w] }

\* what the client does with the answer out (part_003 lines 130-144): it
\* keeps it as its work.Browse and, when it is a unit, browses and sets the
\* captured bytes as its Data; the Browse it then holds is what it reports.
CapturedUnderOtherTarget(out) ==
    IF out.ID = EmptyStr THEN { out }
    ELSE { [out EXCEPT !.URL = ToggleWww(out.URL), !.Data = data] :
             data \in IF cfg \in ConfigsScenario THEN DataScenario
                      ELSE DataInputs }
Captured(out) ==
    IF out.ID = EmptyStr THEN { out }
    ELSE { [out EXCEPT !.Data = data] :
             data \in IF cfg \in ConfigsScenario THEN DataScenario
                      ELSE DataInputs }

\* the run's history after the intake of in with outcome r
Accepted(h, in, r) ==
    IF r.done # done
    THEN [h EXCEPT !.accepted = h.accepted \cup {in.ID},
                   !.recreated = IF runs >= 1 /\ in.ID \in DOMAIN work
                                 THEN h.recreated \cup {in.ID}
                                 ELSE h.recreated]
    ELSE h

\* the run's history after Work has put back the unit of a too short
\* result in and has answered out
Returned(h, c, in, out) ==
    LET back == IF in.ID # EmptyStr /\ ~Acceptable(c, in) THEN {in.ID} ELSE {}
        gone == IF out.ID # EmptyStr THEN {out.ID} ELSE {}
    IN  [h EXCEPT !.returned = (h.returned \ back) \cup gone]

\* server.go 145-205: the outcomes of a call of Work reporting in under the
\* identity wid, from files fs, ledger w, registry ws and counter d: the
\* files, ledger, registry and counter it leaves, its answer out or error
\* err, and mid, the ledger between the intake and the assignment.
HandlerAssignFirst(c, fs, w, ws, d, wid, in) ==
    UNION { { [files |-> r.files, done |-> r.done,
               work |-> IF r.err THEN w ELSE r.work,
               workers |-> Register(ws, wid),
               out |-> IF r.err THEN NoBrowse ELSE a.out,
               err |-> r.err, mid |-> a.work] :
                r \in Intake(c, fs, a.work, d, in) } :
            a \in Assign(c, w) }
HandlerKnownWorkersOnly(c, fs, w, ws, d, wid, in) ==
    UNION { IF r.err
            THEN { [files |-> r.files, done |-> r.done, work |-> w,
                    workers |-> Register(ws, wid), out |-> NoBrowse,
                    err |-> TRUE, mid |-> r.work] }
            ELSE { [files |-> r.files, done |-> r.done, work |-> a.work,
                    workers |-> Register(ws, wid), out |-> a.out,
                    err |-> FALSE, mid |-> r.work] :
                     a \in IF wid \in DOMAIN ws THEN Assign(c, r.work)
                           ELSE { [out |-> NoWork(c), work |-> r.work] } } :
            r \in Intake(c, fs, w, d, in) }
Handler(c, fs, w, ws, d, wid, in) ==
    UNION { IF r.err
            THEN { [files |-> r.files, done |-> r.done, work |-> w,
                    workers |-> Register(ws, wid), out |-> NoBrowse,
                    err |-> TRUE, mid |-> r.work] }
            ELSE { [files |-> r.files, done |-> r.done, work |-> a.work,
                    workers |-> Register(ws, wid), out |-> a.out,
                    err |-> FALSE, mid |-> r.work] :
                     a \in Assign(c, r.work) } :
            r \in Intake(c, fs, w, d, in) }

\* One call of Work by the client on connection conn, reporting in under
\* the identity wid, from lock.Lock() to the return of the handler;
\* delivered: the answer is on its way to the client, which otherwise (and
\* when the handler returns an error) gets an error from client.Work.
Work(conn, wid, in, delivered) ==
    /\ phase = "serving"
    /\ lock = ""
    /\ done < MaxDone \/ in.ID = EmptyStr \/ ~Acceptable(cfg, in)
    /\ \E o \in Handler(cfg, files, work, workers, done, wid, in) :
         /\ files' = o.files
         /\ done' = o.done
         /\ workers' = o.workers
         /\ work' = o.work
         /\ hist' = IF o.err THEN Accepted(hist, in, o)
                    ELSE Returned(Accepted(hist, in, o), cfg, in, o.out)
         /\ reply' = IF delivered /\ ~o.err
                     THEN [reply EXCEPT ![conn] = o.out]
                     ELSE reply
         /\ last' = [op |-> "work", in |-> in, out |-> o.out, err |-> o.err,
                     mid |-> o.mid]
    /\ UNCHANGED <<held, pool, call, cfg, phase, runs, threads>>

\* part_003 125-144: client.Work returns the answer to the client on conn,
\* which keeps it as its work.Browse and, when it is a unit, browses and
\* sets the captured bytes as its Data
Deliver(conn) ==
    /\ reply[conn] # NoReply
    /\ \E b \in Captured(reply[conn]) : held' = [held EXCEPT ![conn] = b]
    /\ reply' = [reply EXCEPT ![conn] = NoReply]
    /\ last' = [last EXCEPT !.op = "deliver"]
    /\ UNCHANGED <<pool, call, cfg, files, work, workers, done, phase, runs,
                   threads, hist>>

\* what the client process on conn sends (part_003 lines 118-125): the
\* Browse it holds, which has an empty ID at first and is the same one
\* again after a call that failed; it calls when it waits for no answer.
\* (A client that stops never calls again; a client started again is
\* another process with another identity, that is another connection.)
Requests(conn) ==
    IF reply[conn] = NoReply THEN { held[conn] } ELSE {}

Poll ==
    \E conn \in Conns, delivered \in BOOLEAN :
      \E in \in Requests(conn) : Work(conn, Identity(conn), in, delivered)

(***************************************************************************)
(* The progress function (server.go 121-136): one round of its loop.       *)
(***************************************************************************)
Finished == done = Total(cfg)

ProgressExit ==
    /\ phase = "serving"
    /\ Finished
    /\ phase' = "exited"
    /\ lock = ""
    /\ last' = [LastNone EXCEPT !.op = "exit"]
    /\ UNCHANGED <<reply, pool, call, cfg, files, work, workers, done, held, runs, threads, hist>>

ProgressPrint ==
    /\ phase = "serving"
    /\ ~Finished
    /\ UNCHANGED vars

(***************************************************************************)
(* The server process stops (at any point) and main runs again on the      *)
(* same command line and disk.                                             *)
(***************************************************************************)
Restart ==
    /\ runs < MaxRestarts
    /\ runs' = runs + 1
    /\ Started(cfg, files)
    /\ workers' = EmptyMap
    /\ last' = LastNone
    /\ lock' = ""
    /\ pc' = [c \in Conns |-> "idle"]
    /\ req' = [c \in Conns |-> NoBrowse]
    /\ ppc' = "sleep"
    /\ hist' = [accepted |-> {}, found |-> done',
                seeded |-> Cardinality(DOMAIN work'), returned |-> {},
                recreated |-> {}]
    /\ UNCHANGED <<reply, pool, call, cfg, files, held>>

Next ==
    \/ Poll
    \/ \E conn \in Conns : Deliver(conn)
    \/ ProgressExit
    \/ ProgressPrint
    \/ Restart

Spec == Init /\ [][Next]_vars

(***************************************************************************)
(* The same handler and progress function, goroutine by goroutine: lock is *)
(* the sync.Mutex, and a goroutine moves one part of its code at a time.   *)
(***************************************************************************)
\* lock.Lock() returns only when no goroutine holds the lock
CanLockAlways(l) == TRUE
CanLock(l) == l = ""

\* server.go 147: the goroutine serving a call on conn gets the lock
WorkLock(conn, in) ==
    /\ phase = "serving"
    /\ pc[conn] = "idle"
    /\ CanLock(lock)
    /\ done < MaxDone \/ in.ID = EmptyStr \/ ~Acceptable(cfg, in)
    /\ lock' = conn
    /\ pc' = [pc EXCEPT ![conn] = "register"]
    /\ req' = [req EXCEPT ![conn] = in]
    /\ UNCHANGED <<reply, pool, call, cfg, files, work, workers, done, phase, held, runs, last, ppc, hist>>

\* server.go 150-156
WorkRegister(conn) ==
    /\ phase = "serving"
    /\ pc[conn] = "register"
    /\ workers' = Register(workers, Identity(conn))
    /\ pc' = [pc EXCEPT ![conn] = "intake"]
    /\ UNCHANGED <<reply, pool, call, cfg, files, work, done, phase, held, runs, last, lock, req, ppc, hist>>

WorkIntakeKeepsLock(conn) ==
    /\ phase = "serving"
    /\ pc[conn] = "intake"
    /\ \E r \in Intake(cfg, files, work, done, req[conn]) :
         /\ files' = r.files
         /\ done' = r.done
         /\ work' = r.work
         /\ hist' = Returned(Accepted(hist, req[conn], r), cfg, req[conn],
                             NoBrowse)
         /\ IF r.err
            THEN /\ pc' = [pc EXCEPT ![conn] = "idle"]
                 /\ req' = [req EXCEPT ![conn] = NoBrowse]
                 /\ lock' = lock
                 /\ last' = [op |-> "work", in |-> req[conn], out |-> NoBrowse,
                             err |-> TRUE, mid |-> r.work]
            ELSE /\ pc' = [pc EXCEPT ![conn] = "find"]
                 /\ UNCHANGED <<lock, last, req>>
    /\ UNCHANGED <<reply, pool, call, cfg, workers, phase, held, runs, ppc>>

\* server.go 158-187; on an error of store the handler returns (line 163)
\* and the deferred lock.Unlock() runs
WorkIntake(conn) ==
    /\ phase = "serving"
    /\ pc[conn] = "intake"
    /\ \E r \in Intake(cfg, files, work, done, req[conn]) :
         /\ files' = r.files
         /\ done' = r.done
         /\ work' = r.work
         /\ hist' = Returned(Accepted(hist, req[conn], r), cfg, req[conn],
                             NoBrowse)
         /\ IF r.err
            THEN /\ pc' = [pc EXCEPT ![conn] = "idle"]
                 /\ req' = [req EXCEPT ![conn] = NoBrowse]
                 /\ lock' = ""
                 /\ last' = [op |-> "work", in |-> req[conn], out |-> NoBrowse,
                             err |-> TRUE, mid |-> r.work]
            ELSE /\ pc' = [pc EXCEPT ![conn] = "find"]
                 /\ UNCHANGED <<lock, last, req>>
    /\ UNCHANGED <<reply, pool, call, cfg, workers, phase, held, runs, ppc>>

\* server.go 189-204, then the deferred delete and lock.Unlock()
WorkFind(conn, delivered) ==
    /\ phase = "serving"
    /\ pc[conn] = "find"
    /\ \E a \in Assign(cfg, work) :
         /\ work' = a.work
         /\ hist' = Returned(hist, cfg, NoBrowse, a.out)
         /\ reply' = IF delivered THEN [reply EXCEPT ![conn] = a.out]
                     ELSE reply
         /\ last' = [op |-> "work", in |-> req[conn], out |-> a.out,
                     err |-> FALSE, mid |-> work]
    /\ pc' = [pc EXCEPT ![conn] = "idle"]
    /\ req' = [req EXCEPT ![conn] = NoBrowse]
    /\ lock' = ""
    /\ UNCHANGED <<held, pool, call, cfg, files, workers, done, phase, runs, ppc>>

\* server.go 125
ProgressLock ==
    /\ phase = "serving"
    /\ ppc = "sleep"
    /\ CanLock(lock)
    /\ lock' = "progress"
    /\ ppc' = "check"
    /\ UNCHANGED <<reply, pool, call, cfg, files, work, workers, done, phase, held, runs, last, pc, req, hist>>

\* server.go 126-130: os.Exit(0) when done is the total, else on to the
\* progress line
ProgressCheck ==
    /\ phase = "serving"
    /\ ppc = "check"
    /\ IF Finished
       THEN /\ phase' = "exited"
            /\ last' = [LastNone EXCEPT !.op = "exit"]
            /\ UNCHANGED <<lock, ppc>>
       ELSE /\ ppc' = "print"
            /\ UNCHANGED <<lock, phase, last>>
    /\ UNCHANGED <<reply, pool, call, cfg, files, work, workers, done, held, runs, pc, req, hist>>

\* server.go 131-134: fmt.Printf of done, len(work) and len(workers), then
\* lock.Unlock() and time.Sleep
ProgressReport ==
    /\ phase = "serving"
    /\ ppc = "print"
    /\ lock' = ""
    /\ ppc' = "sleep"
    /\ UNCHANGED <<reply, pool, call, cfg, files, work, workers, done, phase, held, runs, last, pc, req, hist>>

\* server.go 145-147: a call of Work has arrived on conn and its goroutine
\* is blocked in lock.Lock()
WorkCall(conn, in) ==
    /\ phase = "serving"
    /\ pc[conn] = "idle"
    /\ done < MaxDone \/ in.ID = EmptyStr \/ ~Acceptable(cfg, in)
    /\ pc' = [pc EXCEPT ![conn] = "wait"]
    /\ req' = [req EXCEPT ![conn] = in]
    /\ UNCHANGED <<reply, pool, call, cfg, files, work, workers, done, phase, held, runs, last, lock, ppc, hist>>

\* server.go 147: lock.Lock() returns in the goroutine of the call on conn
WorkAcquire(conn) ==
    /\ phase = "serving"
    /\ pc[conn] = "wait"
    /\ CanLock(lock)
    /\ lock' = conn
    /\ pc' = [pc EXCEPT ![conn] = "register"]
    /\ UNCHANGED <<reply, pool, call, cfg, files, work, workers, done, phase, held, runs, last, req, ppc, hist>>

\* the command lines of the goroutine-level specification
ConfigsLock ==
    { Config(<<Row(StrA, UrlACom)>>, 1, 2, FALSE) }

InitLock == Init /\ cfg \in ConfigsLock

NextLock ==
    \/ \E conn \in Conns : \E in \in Requests(conn) : WorkLock(conn, in)
    \/ \E conn \in Conns : WorkRegister(conn)
    \/ \E conn \in Conns : WorkIntake(conn)
    \/ \E conn \in Conns, delivered \in BOOLEAN : WorkFind(conn, delivered)
    \/ \E conn \in Conns : Deliver(conn)
    \/ ProgressLock
    \/ ProgressCheck
    \/ ProgressReport
    \/ Restart

SpecLock == InitLock /\ [][NextLock]_vars

(***************************************************************************)
(* One run of the server at the same granularity, with the calls that wait *)
(* for the lock.  Every goroutine that can take a step takes one, and a    *)
(* goroutine blocked in lock.Lock() gets the lock if it is free again and  *)
(* again (sync.Mutex hands the lock to a waiter that has waited long).     *)
(***************************************************************************)
NextLockFair ==
    \/ \E conn \in Conns : \E in \in Requests(conn) : WorkCall(conn, in)
    \/ \E conn \in Conns : WorkAcquire(conn)
    \/ \E conn \in Conns : WorkRegister(conn)
    \/ \E conn \in Conns : WorkIntake(conn)
    \/ \E conn \in Conns, delivered \in BOOLEAN : WorkFind(conn, delivered)
    \/ \E conn \in Conns : Deliver(conn)
    \/ ProgressLock
    \/ ProgressCheck
    \/ ProgressReport

\* the goroutine of the call on conn can take the step at position p of
\* the handler: the intake and the assignment have an outcome in every state
CanStep(conn, p) == phase = "serving" /\ pc[conn] = p

\* weak fairness of the intake and of the assignment of the call on conn,
\* with CanStep for ENABLED of the step
FairIntake(conn) ==
    \/ []<>(~CanStep(conn, "intake"))
    \/ []<><<WorkIntake(conn)>>_vars

FairFind(conn) ==
    \/ []<>(~CanStep(conn, "find"))
    \/ []<><<\E delivered \in BOOLEAN : WorkFind(conn, delivered)>>_vars

SpecLockFair ==
    /\ InitLock
    /\ [][NextLockFair]_vars
    /\ \A conn \in Conns :
         /\ SF_vars(WorkAcquire(conn))
         /\ WF_vars(WorkRegister(conn))
         /\ FairIntake(conn)
         /\ FairFind(conn)
    /\ WF_vars(ProgressCheck)
    /\ WF_vars(ProgressReport)

(***************************************************************************)
(* A run of the server that is not stopped, with the progress function's   *)
(* loop going on: when done stays at the total, a round of the loop finds  *)
(* it there.                                                               *)
(***************************************************************************)
InitFair == Init /\ cfg \in ConfigsLock

NextFair ==
    \/ Poll
    \/ \E conn \in Conns : Deliver(conn)
    \/ ProgressExit
    \/ ProgressPrint

SpecFair == InitFair /\ [][NextFair]_vars /\ WF_vars(ProgressExit)

(***************************************************************************)
(* One run of the server in which every answer of Work reaches its client  *)
(* (part_003 119-124: err is nil and work.Browse is replaced).             *)
(***************************************************************************)
PollDelivered ==
    \E conn \in Conns :
      \E in \in Requests(conn) : Work(conn, Identity(conn), in, TRUE)

InitProtocol == Init

NextProtocol ==
    \/ PollDelivered
    \/ \E conn \in Conns : Deliver(conn)
    \/ ProgressExit
    \/ ProgressPrint

SpecProtocol == InitProtocol /\ [][NextProtocol]_vars

(***************************************************************************)
(* The same run with clients that never stop (part_003 117-145, a loop     *)
(* without exit), on tables whose rows have different ids and a minimum    *)
(* length of at least one byte.  Each client goes round its loop again and *)
(* again: a call that returns without error comes again and again, and so  *)
(* does a capture that is long enough.                                     *)
(***************************************************************************)
ConfigsLive ==
    { c \in Configs :
        /\ Main(c, EmptyMap).phase = "serving"
        /\ c.minDataLen >= 1
        /\ \A i, j \in 1..Len(c.pages) : c.pages[i][1] = c.pages[j][1] => i = j }

InitLive == Init /\ cfg \in ConfigsLive

\* part_003 125: the call of client.Work in a round of the loop of the client
\* on conn, answered
Round(conn) ==
    /\ reply[conn] = NoReply
    /\ Work(conn, Identity(conn), held[conn], TRUE)

\* a round whose call returns nil
GoodRound(conn) == Round(conn) /\ ~last'.err

\* part_003 130-144: the rest of the round, with a capture that can be
\* accepted
GoodDeliver(conn) ==
    /\ Deliver(conn)
    /\ held'[conn].ID # EmptyStr => Len(held'[conn].Data) >= cfg.minDataLen

\* the client on conn can call: the server serves and the client waits for
\* no answer (a call that returns nil puts an answer on its way)
CanRound(conn) ==
    /\ phase = "serving"
    /\ lock = ""
    /\ \/ done < MaxDone
       \/ held[conn].ID = EmptyStr
       \/ ~Acceptable(cfg, held[conn])
    /\ reply[conn] = NoReply

\* strong fairness of the good rounds of the client on conn, with CanRound
\* for ENABLED <<GoodRound(conn)>>_vars: a client that comes to its call
\* again and again is answered without error again and again
FairRounds(conn) ==
    \/ <>[](~CanRound(conn))
    \/ []<><<GoodRound(conn)>>_vars

NextLive ==
    \/ \E conn \in Conns : Round(conn)
    \/ \E conn \in Conns : Deliver(conn)
    \/ ProgressExit
    \/ ProgressPrint

SpecLive ==
    /\ InitLive
    /\ [][NextLive]_vars
    /\ \A conn \in Conns : FairRounds(conn) /\ SF_vars(GoodDeliver(conn))
    /\ WF_vars(ProgressExit)

(***************************************************************************)
(* The server with a client that does not follow part_003: Work takes any  *)
(* pb.Req off the wire, so the client on c2 may send any WorkerID, ID, URL *)
(* and Data, or no Browse at all (server.go 145-146), and does nothing     *)
(* with the answers.  The client on c1 follows part_003.                   *)
(***************************************************************************)
StrX == <<"x">>
RogueIds == { EmptyStr, UnitId(<<Row(StrA, UrlACom)>>, 1, 0), StrX }
RogueUrls == { UrlWwwACom }

\* the WorkerID of its requests: any string, that of the client on c1 too
RogueWorkerIds == { Identity("c1"), StrX }

RogueRequests ==
    { Browse(id, url, 0, data, FALSE) :
        id \in RogueIds, url \in RogueUrls, data \in DataInputs }

RoguePoll ==
    \E wid \in RogueWorkerIds, in \in RogueRequests : Work("c2", wid, in, FALSE)

\* a pb.Req without Browse (part_001: Browse is a pointer): the handler
\* registers the WorkerID (server.go 151-156) and in.Browse.ID (159) is a nil
\* dereference; nothing recovers the panic and the server process ends
RogueNilBrowse ==
    /\ phase = "serving"
    /\ lock = ""
    /\ \E wid \in RogueWorkerIds : workers' = Register(workers, wid)
    /\ phase' = "panic"
    /\ last' = [LastNone EXCEPT !.op = "panic"]
    /\ UNCHANGED <<held, reply, pool, call, cfg, files, work, done, runs,
                   threads, hist>>

InitRogue == InitServer /\ cfg \in ConfigsLock /\ call = NoCall /\ pool = NoPool

\* the client on c1 follows part_003
HonestPoll ==
    \E delivered \in BOOLEAN :
      \E in \in Requests("c1") : Work("c1", Identity("c1"), in, delivered)

NextRogue ==
    \/ HonestPoll
    \/ Deliver("c1")
    \/ RoguePoll
    \/ RogueNilBrowse
    \/ ProgressExit
    \/ ProgressPrint

SpecRogue == InitRogue /\ [][NextRogue]_vars

(***************************************************************************)
(* The server on the command line of the end-to-end scenario.              *)
(***************************************************************************)
InitScenario ==
    InitServer /\ cfg \in ConfigsScenario /\ call = NoCall /\ pool = NoPool

SpecScenario == InitScenario /\ [][Next]_vars

(***************************************************************************)
(* The functions of Work and store that take a string from the client,     *)
(* applied on their own to every string of a bounded set: the toggle of    *)
(* the "www." prefix (server.go 174-179) to the URL of a too short result, *)
(* and outputFileName (server.go 219-221) to the ID of a result to store.  *)
(***************************************************************************)
\* the longest URL and the longest ID applied to
MaxUrlLen == 9
MaxIdLen == 5

\* the strings of at most n characters of alphabet
Strings(alphabet, n) == UNION { [1..k -> alphabet] : k \in 0..n }

UrlStrings == Strings({"w", ".", "a"}, MaxUrlLen)
IdStrings == Strings({"a", ".", "/"}, MaxIdLen)

InitPure ==
    /\ InitServer
    /\ cfg \in ConfigsLock
    /\ pool = NoPool
    /\ call \in { [fn |-> "toggle", arg |-> t, res |-> t, n |-> 0] :
                    t \in UrlStrings }
                \cup { [fn |-> "outputFileName", arg |-> id, res |-> EmptyStr,
                        n |-> 0] : id \in IdStrings }

\* server.go 174-179 once more: the URL of a too short result is the URL
\* Work handed out after the too short result before it
Toggle ==
    /\ call.fn = "toggle"
    /\ call.n < 2
    /\ call' = [call EXCEPT !.res = ToggleWww(call.res), !.n = call.n + 1]
    /\ UNCHANGED <<cfg, files, work, workers, done, phase, held, reply, runs,
                   last, lock, pc, req, ppc, hist, pool>>

\* server.go 209: the name of the file store writes for the ID it is given
FileName ==
    /\ call.fn = "outputFileName"
    /\ call.n = 0
    /\ call' = [call EXCEPT !.res = outputFileName(call.arg), !.n = 1]
    /\ UNCHANGED <<cfg, files, work, workers, done, phase, held, reply, runs,
                   last, lock, pc, req, ppc, hist, pool>>

NextPure ==
    \/ Toggle
    \/ FileName

SpecPure == InitPure /\ [][NextPure]_vars

(***************************************************************************)
(* The worker pool of the extractor tools (extractdns.go 30-72; the same   *)
(* code with the suffix ".torlog" in dnsstats.go 547-588).                 *)
(***************************************************************************)
\* the most worker goroutines, runtime.NumCPU() * *workerFactor, of a run
MaxWorkers == 2

\* strings.HasSuffix
HasSuffix(s, suf) ==
    /\ Len(s) >= Len(suf)
    /\ SubSeq(s, Len(s) - Len(suf) + 1, Len(s)) = suf

DotPcap == <<".", "p", "c", "a", "p">>

\* an os.FileInfo of the directory
Entry(name, dir) == [name |-> name, dir |-> dir]

\* a directory as ioutil.ReadDir returns it, sorted by name: two captures,
\* a directory with the name of a capture and a file that is no capture
DirAll ==
    << Entry(<<"a">> \o DotPcap, FALSE),
       Entry(<<"b">> \o DotPcap, FALSE),
       Entry(<<"d">> \o DotPcap, TRUE),
       Entry(<<"e", ".", "d", "n", "s">>, FALSE) >>

\* the entries of d at the positions keep, in order
RECURSIVE Pick(_, _, _)
Pick(d, keep, i) ==
    IF i > Len(d) THEN << >>
    ELSE (IF i \in keep THEN <<d[i]>> ELSE << >>) \o Pick(d, keep, i + 1)

Dirs == { Pick(DirAll, keep, 1) : keep \in SUBSET (1..Len(DirAll)) }

\* extractdns.go 55
Matches(e) == ~e.dir /\ HasSuffix(e.name, DotPcap)

PoolNames == { DirAll[k].name : k \in 1..Len(DirAll) }

\* extractdns.go 44-49: the channel and the WaitGroup are made and n
\* goroutines run doWork; main is at the head of its loop with i = 0 (the
\* positions of entries count from 1 here)
PoolStarted(entries, n) ==
    [mpc |-> "loop", entries |-> entries, n |-> n, i |-> 1, extracted |-> 0,
     closed |-> FALSE, wg |-> n,
     wpc |-> [w \in 1..n |-> "range"],
     wfile |-> [w \in 1..n |-> EmptyStr],
     count |-> [f \in PoolNames |-> 0]]

InitPool ==
    /\ InitServer
    /\ cfg \in ConfigsLock
    /\ call = NoCall
    /\ pool \in { PoolStarted(d, n) : d \in Dirs, n \in 0..MaxWorkers }

Servers == <<cfg, files, work, workers, done, phase, held, reply, runs, last,
             lock, pc, req, ppc, hist, call>>

\* extractdns.go 54-55, 60-61: the head of main's loop; an entry that does not
\* match is passed over, close(work) follows the last entry
MainLoop ==
    /\ pool.mpc = "loop"
    /\ pool' =
         IF pool.i > Len(pool.entries)
         THEN [pool EXCEPT !.closed = TRUE, !.mpc = "wait"]
         ELSE IF Matches(pool.entries[pool.i])
              THEN [pool EXCEPT !.mpc = "send"]
              ELSE [pool EXCEPT !.i = pool.i + 1]
    /\ UNCHANGED Servers

\* extractdns.go 57-58 and 69: work is unbuffered, so the send of main and
\* the receive of the range of worker w happen together
Handoff(w) ==
    /\ pool.mpc = "send"
    /\ w \in 1..pool.n
    /\ pool.wpc[w] = "range"
    /\ pool' = [pool EXCEPT !.mpc = "loop",
                            !.i = pool.i + 1,
                            !.extracted = pool.extracted + 1,
                            !.wpc[w] = "extract",
                            !.wfile[w] = pool.entries[pool.i].name]
    /\ UNCHANGED Servers

\* extractdns.go 70, 74-98: extract(file) writes the .dns file and returns
Extract(w) ==
    /\ pool.mpc \in {"loop", "send", "wait"}
    /\ w \in 1..pool.n
    /\ pool.wpc[w] = "extract"
    /\ pool' = [pool EXCEPT !.wpc[w] = "range",
                            !.count[pool.wfile[w]] = pool.count[pool.wfile[w]] + 1,
                            !.wfile[w] = EmptyStr]
    /\ UNCHANGED Servers

\* extractdns.go 76-77, 80-81, 90-91, 95-96: log.Fatalf ends the process
ExtractFatal(w) ==
    /\ pool.mpc \in {"loop", "send", "wait"}
    /\ w \in 1..pool.n
    /\ pool.wpc[w] = "extract"
    /\ pool' = [pool EXCEPT !.mpc = "fatal"]
    /\ UNCHANGED Servers

\* extractdns.go 67-72: the range ends on the closed channel and the
\* deferred wg.Done() runs
DoWorkReturn(w) ==
    /\ pool.mpc \in {"loop", "send", "wait"}
    /\ w \in 1..pool.n
    /\ pool.wpc[w] = "range"
    /\ pool.closed
    /\ pool' = [pool EXCEPT !.wpc[w] = "returned", !.wg = pool.wg - 1]
    /\ UNCHANGED Servers

\* extractdns.go 62-64: wg.Wait() returns, "done" is logged
MainDone ==
    /\ pool.mpc = "wait"
    /\ pool.wg = 0
    /\ pool' = [pool EXCEPT !.mpc = "done"]
    /\ UNCHANGED Servers

NextPool ==
    \/ MainLoop
    \/ \E w \in 1..MaxWorkers : Handoff(w)
    \/ \E w \in 1..MaxWorkers : Extract(w)
    \/ \E w \in 1..MaxWorkers : ExtractFatal(w)
    \/ \E w \in 1..MaxWorkers : DoWorkReturn(w)
    \/ MainDone

\* every goroutine that can take a step takes one
SpecPool ==
    /\ InitPool
    /\ [][NextPool]_vars
    /\ WF_vars(MainLoop)
    /\ WF_vars(\E w \in 1..MaxWorkers : Handoff(w))
    /\ \A w \in 1..MaxWorkers :
         WF_vars(Extract(w) \/ ExtractFatal(w)) /\ WF_vars(DoWorkReturn(w))
    /\ WF_vars(MainDone)

(***************************************************************************)
(* Properties.                                                             *)
(***************************************************************************)
\* the step is a call of Work that reports a result (previous id not empty)
ReportStep == last'.op = "work" /\ last'.in.ID # EmptyStr

\* the result file of id is on disk fs
ResultFile(fs, id) ==
    LET r == Lookup(fs, outputFileName(id)) IN r.err = "nil" /\ ~r.dir

\* the file of disk fs that outputFileName(id) leads to
FileOf(fs, id) == Rel(Lookup(fs, outputFileName(id)).path)

\* after the step the file of the reported id holds the reported payload
PayloadStored ==
    Len(last'.in.Data) > 0 =>
        /\ ResultFile(files', last'.in.ID)
        /\ files'[FileOf(files', last'.in.ID)] = last'.in.Data

\* C1 as stated: a reported result is accepted (stored, and done one more)
\* if and only if its payload has at least minDataLen bytes; a shorter one
\* writes nothing, leaves done alone and puts a unit with its id in the
\* ledger.
C1_AcceptedIffLongEnough ==
    [][ReportStep =>
          /\ (done' = done + 1 /\ PayloadStored)
               <=> Len(last'.in.Data) >= cfg.minDataLen
          /\ Len(last'.in.Data) < cfg.minDataLen =>
               /\ files' = files
               /\ done' = done
               /\ last'.in.ID \in DOMAIN last'.mid]_vars

\* C1, amended: a reported result is accepted (stored, and done one more)
\* if and only if its payload has at least minDataLen bytes and the write of
\* the store does not fail; when the write fails Work returns the error
\* with done and the ledger as they were; a shorter payload writes nothing,
\* leaves done alone and puts a unit with its id in the ledger.
C1_AcceptedIffLongEnoughAndWritten ==
    [][ReportStep =>
          /\ (done' = done + 1 /\ PayloadStored)
               <=> (Len(last'.in.Data) >= cfg.minDataLen /\ ~last'.err)
          /\ last'.err =>
               /\ Len(last'.in.Data) >= cfg.minDataLen
               /\ done' = done
               /\ work' = work
          /\ Len(last'.in.Data) < cfg.minDataLen =>
               /\ files' = files
               /\ done' = done
               /\ last'.in.ID \in DOMAIN last'.mid]_vars

\* C1: a result of exactly minDataLen bytes was accepted, stored and counted
C1_Witness ==
    /\ last.op = "work"
    /\ last.in.ID # EmptyStr
    /\ cfg.minDataLen > 0
    /\ Len(last.in.Data) = cfg.minDataLen
    /\ ~last.err
    /\ files[outputFileName(last.in.ID)] = last.in.Data
    /\ done = 1

\* C2 as stated: done is the number of distinct ids whose result was
\* accepted in this run plus the number of results main found on disk.
C2_DoneCountsDistinctIds ==
    done = Cardinality(hist.accepted) + hist.found

\* C3: when Work answers with a unit, that unit is no longer in the ledger,
\* the ledger is the ledger after the intake less that one entry, and the
\* answer carries the entry's URL, the timeout and the all-traffic flag.
C3_AssignedUnitRemoved ==
    (last.op = "work" /\ ~last.err /\ last.out.ID # EmptyStr) =>
        /\ last.out.ID \notin DOMAIN work
        /\ last.out.ID \in DOMAIN last.mid
        /\ Cardinality(DOMAIN work) = Cardinality(DOMAIN last.mid) - 1
        /\ DOMAIN work = DOMAIN last.mid \ {last.out.ID}
        /\ \A k \in DOMAIN work : work[k] = last.mid[k]
        /\ last.out.URL = last.mid[last.out.ID].URL
        /\ last.out.Timeout = cfg.timeout
        /\ last.out.AllTraffic = cfg.alltraffic

\* C3: Work handed out one of two units, with the all-traffic flag set
C3_Witness ==
    /\ last.op = "work"
    /\ last.out.ID # EmptyStr
    /\ last.out.AllTraffic
    /\ Cardinality(DOMAIN last.mid) = 2
    /\ Cardinality(DOMAIN work) = 1

\* the URL t with its leading "www." removed, or added when it has none
Toggled(t, u) ==
    IF Len(t) >= 4 /\ t[1] = "w" /\ t[2] = "w" /\ t[3] = "w" /\ t[4] = "."
    THEN t = WwwDot \o u
    ELSE u = WwwDot \o t

\* the step is a call of Work that reports a too short result
RejectStep == ReportStep /\ Len(last'.in.Data) < cfg.minDataLen

\* C4: after the intake of a too short result for id X with URL t the
\* ledger holds under X the item with id X and t's "www." prefix toggled,
\* whatever it held under X before, and its other entries are as before.
C4_RejectedPutBackToggled ==
    [][RejectStep =>
          /\ DOMAIN last'.mid = DOMAIN work \cup {last'.in.ID}
          /\ last'.mid[last'.in.ID].ID = last'.in.ID
          /\ Toggled(last'.in.URL, last'.mid[last'.in.ID].URL)
          /\ \A k \in DOMAIN work \ {last'.in.ID} : last'.mid[k] = work[k]]_vars

\* C4: a too short result with a "www." URL was put back without the
\* prefix, beside another entry of the ledger
C4_Witness ==
    /\ last.op = "work"
    /\ last.in.ID # EmptyStr
    /\ Len(last.in.Data) < cfg.minDataLen
    /\ HasPrefix(last.in.URL, WwwDot)
    /\ last.mid[last.in.ID].URL = Drop(last.in.URL, 4)
    /\ Cardinality(DOMAIN last.mid) = 2

\* Work answered with "no work": an empty id and only the timeout
Sentinel == ~last.err /\ last.out = Browse(EmptyStr, EmptyStr, cfg.timeout, << >>, FALSE)

\* C5 as stated: Work answers "no work" if and only if the ledger is empty
\* after the intake, and any answer with an empty id carries only the timeout.
C5_NoWorkIffEmpty ==
    last.op = "work" =>
        /\ Sentinel <=> DOMAIN last.mid = {}
        /\ (~last.err /\ last.out.ID = EmptyStr) => Sentinel

\* C5, amended: a call of Work that does not fail in the store answers
\* "no work" if and only if the ledger is empty after the intake, and any
\* answer with an empty id carries only the timeout; a call whose store
\* fails answers with the error alone, whatever the ledger holds.
C5_NoWorkIffEmptyUnlessError ==
    last.op = "work" =>
        /\ ~last.err => (Sentinel <=> DOMAIN last.mid = {})
        /\ (~last.err /\ last.out.ID = EmptyStr) => Sentinel
        /\ last.err => last.out = NoBrowse

\* C5: Work answered "no work" right after accepting the last result
C5_Witness ==
    /\ last.op = "work"
    /\ Sentinel
    /\ last.in.ID # EmptyStr
    /\ Len(last.in.Data) >= cfg.minDataLen
    /\ DOMAIN work = {}
    /\ done = Total(cfg)

\* a goroutine is inside Work, or the progress function inside its check
InWork(c) == pc[c] # "idle"

\* the lock is held by exactly the goroutine that is inside its section
Exclusive ==
    /\ \A c \in Conns : InWork(c) => lock = c
    /\ ppc = "check" => lock = "progress"

\* the order of the parts of Work
WorkOrder(from, to) ==
    \/ from = "idle" /\ to = "register"
    \/ from = "register" /\ to = "intake"
    \/ from = "intake" /\ to \in {"find", "idle"}
    \/ from = "find" /\ to = "idle"

\* C6: Work is one critical section: a goroutine inside Work holds the
\* lock from its registry update to its return, the parts run in the order
\* registry, intake, assignment, and while it holds the lock no other call
\* of Work and no round of the progress function takes a step, so that the
\* ledger, the registry and done change only by steps of the holder.
C6_WorkIsOneCriticalSection ==
    [][runs' = runs =>
          /\ Exclusive
          /\ Exclusive'
          /\ \A c \in Conns :
               /\ pc'[c] # pc[c] => WorkOrder(pc[c], pc'[c])
               /\ lock = c =>
                    /\ ppc' = ppc
                    /\ \A o \in Conns \ {c} : pc'[o] = pc[o]
                    /\ InWork(c)
          /\ (work' # work \/ workers' # workers \/ done' # done) =>
               /\ lock \in Conns
               /\ pc'[lock] # pc[lock]]_vars

\* C6: a call of Work has accepted a result and is about to find work
C6_Witness ==
    /\ pc["c1"] = "find"
    /\ lock = "c1"
    /\ req["c1"].ID # EmptyStr
    /\ done = 1
    /\ "c2" \in {c \in Conns : Identity(c) \in DOMAIN workers}

\* the id of the unit the client on c has to report: that of the answer on
\* its way to it, and the one it holds when none is (the one it held when
\* it called is reported by then)
AssignedTo(c) == IF reply[c] # NoReply THEN reply[c].ID ELSE held[c].ID

\* a unit is still assigned to a worker: a client holds it or is about to,
\* and no result for it has been accepted
Assigned(X) ==
    /\ \E c \in Conns : AssignedTo(c) = X
    /\ X \notin hist.accepted
    /\ ~ResultFile(files, X)

\* C7 as stated: when the progress function has exited the process, every
\* unit of the pages file has an accepted result, the ledger is empty and
\* no unit is still assigned to a worker.
C7_ExitOnlyWhenAllDone ==
    phase = "exited" =>
        /\ \A X \in TableIds(cfg) : X \in hist.accepted \/ ResultFile(files, X)
        /\ DOMAIN work = {}
        /\ \A X \in TableIds(cfg) : ~Assigned(X)

\* C8 as stated: whenever done is at the total, the progress function
\* eventually exits the process.
C8_DoneLeadsToExit ==
    (phase = "serving" /\ done = Total(cfg)) ~> (phase = "exited")

\* the state is the one main has just built
Loaded == last.op = "start" /\ phase = "serving" /\ \A c \in Conns : pc[c] = "idle"

\* the URL main gives the item of a page whose column is raw
HasAuthority(raw) ==
    \E k \in 1..(Len(raw) - 2) : SubSeq(raw, k, k + 2) = <<":", "/", "/">>
NormalizedTarget(raw) ==
    IF HasAuthority(raw) THEN raw
    ELSE <<"h", "t", "t", "p", ":", "/", "/">> \o raw

\* the last row of the pages file with the identifier of row i
LastRowOf(pages, i) ==
    CHOOSE j \in 1..Len(pages) :
        /\ pages[j][1] = pages[i][1]
        /\ \A k \in (j + 1)..Len(pages) : pages[k][1] # pages[i][1]

\* C9 as stated: after main has loaded, for every row and sample: if the result file
\* of its id exists the ledger holds no such unit, and done counts it once;
\* if not, the ledger holds the unit, with the normalized URL of the (last)
\* row of that id, and done does not count it.
C9_LoaderSkipsStoredResults ==
    Loaded =>
        /\ \A i \in 1..Len(cfg.pages), s \in 0..(cfg.samples - 1) :
             LET X == cfg.pages[i][1] \o <<"-">> \o Itoa(s)
             IN  IF ResultFile(files, X)
                 THEN X \notin DOMAIN work
                 ELSE /\ X \in DOMAIN work
                      /\ work[X].ID = X
                      /\ work[X].URL =
                           NormalizedTarget(cfg.pages[LastRowOf(cfg.pages, i)][2])
        /\ done = Cardinality(
             { p \in (1..Len(cfg.pages)) \X (0..(cfg.samples - 1)) :
                 ResultFile(files,
                            cfg.pages[p[1]][1] \o <<"-">> \o Itoa(p[2])) })

\* C10 as stated: when the server has been started again, wherever it was
\* stopped, every unit of the pages file whose result file is missing is in
\* the ledger.
C10_RestartRecreatesMissing ==
    (Loaded /\ runs >= 1) =>
        \A i \in 1..Len(cfg.pages), s \in 0..(cfg.samples - 1) :
            LET X == cfg.pages[i][1] \o <<"-">> \o Itoa(s)
            IN  ~ResultFile(files, X) => X \in DOMAIN work

\* the units of ledger w whose id is X
UnitsWithId(w, X) == { k \in DOMAIN w : w[k].ID = X }

\* C11: the ledger, as Work leaves it and as the intake leaves it to the
\* assignment, holds at most one unit per id: every entry is the unit whose
\* id is its key, so no two entries carry the same id.
C11_OneUnitPerId ==
    /\ \A k \in DOMAIN work : UnitsWithId(work, work[k].ID) = {k}
    /\ \A k \in DOMAIN work : work[k].ID = k
    /\ \A k \in DOMAIN last.mid : UnitsWithId(last.mid, last.mid[k].ID) = {k}

\* C11: a too short result was put back for an id the ledger already held
\* (the server had been started again), beside another unit
C11_Witness ==
    /\ last.op = "work"
    /\ runs = 1
    /\ last.in.ID # EmptyStr
    /\ Len(last.in.Data) < cfg.minDataLen
    /\ Cardinality(DOMAIN last.mid) = 2
    /\ last.mid[last.in.ID].URL = ToggleWww(last.in.URL)
    /\ last.out.ID # last.in.ID
    /\ last.in.ID \in DOMAIN work

\* the units handed out and not reported back: a client holds the unit or
\* is about to, the ledger does not hold it, and no result for it was
\* accepted in this run
Outstanding ==
    { X \in TableIds(cfg) :
        /\ \E c \in Conns : AssignedTo(c) = X
        /\ X \notin DOMAIN work
        /\ X \notin hist.accepted }

\* C12 as stated: the units in the ledger, the completed count and the
\* units handed out and not reported back never add up to more than rows
\* times samples, and the ledger never holds more units than main seeded.
C12_Conservation ==
    /\ Cardinality(DOMAIN work) + done + Cardinality(Outstanding) <= Total(cfg)
    /\ Cardinality(DOMAIN work) <= hist.seeded

\* C13: within one run of the server, Work returns a unit it has returned
\* before only when a too short result for it has been reported since (or
\* is reported by this very call); a unit returned and not so reported is
\* not in the ledger, whoever polls and whether or not its holder ever
\* polls again, and the calls of the others do not fail because of it.
C13_AtMostOnceDelivery ==
    [][/\ (last'.op = "work" /\ runs' = runs /\ last'.out.ID # EmptyStr
            /\ last'.out.ID \in hist.returned) =>
               /\ last'.in.ID = last'.out.ID
               /\ Len(last'.in.Data) < cfg.minDataLen
       /\ \A X \in hist'.returned : X \notin DOMAIN work'
       /\ (last'.op = "work" /\ last'.in.ID = EmptyStr) => ~last'.err]_vars

\* C13: the client on c1 was handed the only unit and has not reported; the
\* client on c2 has polled since and was told there is no work
C13_Witness ==
    /\ hist.returned = {held["c1"].ID}
    /\ held["c1"].ID # EmptyStr
    /\ held["c2"].ID = EmptyStr
    /\ held["c2"].Timeout = cfg.timeout
    /\ Identity("c2") \in DOMAIN workers
    /\ last.op = "work"
    /\ last.out.ID = EmptyStr
    /\ ~last.err
    /\ DOMAIN work = {}
    /\ done = 0
    /\ runs = 0

\* the step is the return of Work, on connection c, with an error of store
ErrorReturn(c) == pc[c] = "intake" /\ pc'[c] = "idle" /\ runs' = runs

\* C14: when the write of store fails, Work returns the error and no
\* answer, with the ledger and done as they were when the call began and
\* nothing handed to the client; the lock is free again, the server goes on
\* serving, and the client, which still holds the same result, can report
\* it again in a call that is taken like any other.
C14_StoreErrorLeavesState ==
    [][\A c \in Conns : ErrorReturn(c) =>
          /\ last'.op = "work" /\ last'.err
          /\ last'.in = req[c]
          /\ Acceptable(cfg, req[c]) /\ Len(req[c].Data) > 0
          /\ last'.out = NoBrowse
          /\ work' = work /\ done' = done
          /\ held' = held /\ reply' = reply
          /\ held'[c] = req[c] /\ reply'[c] = NoReply
          /\ lock = c /\ lock' = ""
          /\ phase' = "serving"
          /\ \A o \in Conns : pc'[o] = "idle"
          /\ req[c] \in { in \in Requests(c)' : (ENABLED WorkLock(c, in))' }]_vars

\* C14: the write failed for a result whose unit main had put in the
\* ledger again; the unit is still there and the lock is free
C14_Witness ==
    /\ last.op = "work"
    /\ last.err
    /\ runs = 1
    /\ last.in.ID \in DOMAIN work
    /\ lock = ""
    /\ \E c \in Conns : held[c] = last.in
    /\ done = 0
    /\ outputFileName(last.in.ID) \notin DOMAIN files

WwwWww == WwwDot \o WwwDot

\* C15 as stated: for every URL, toggling the "www." prefix twice gives the
\* URL back.
C15_ToggleTwiceIsIdentity ==
    (call.fn = "toggle" /\ call.n = 2) => call.res = call.arg

\* C15, amended: toggling the "www." prefix twice gives the URL back for
\* every URL that does not begin with "www.www."; for one that does, it
\* gives the URL without that double prefix.
C15_ToggleTwiceUnlessDoubleWww ==
    (call.fn = "toggle" /\ call.n = 2) =>
        IF HasPrefix(call.arg, WwwWww)
        THEN call.res = Drop(call.arg, 8)
        ELSE call.res = call.arg

\* C15: "www.a" was toggled twice, through "a"
C15_Witness ==
    /\ call.fn = "toggle"
    /\ call.n = 2
    /\ call.arg = WwwDot \o <<"a">>
    /\ call.res = call.arg

\* the step is a call of Work that accepts a result: long enough and stored
AcceptStep ==
    /\ ReportStep
    /\ runs' = runs
    /\ ~last'.err
    /\ Len(last'.in.Data) >= cfg.minDataLen

\* the step is a call of Work that stores a result a second time: this run
\* has accepted its id before, and the file holds its payload already
DuplicateStore ==
    /\ AcceptStep
    /\ last'.in.ID \in hist.accepted
    /\ Len(last'.in.Data) > 0
    /\ ResultFile(files, last'.in.ID)
    /\ files[FileOf(files, last'.in.ID)] = last'.in.Data

\* C16 as stated: an accepted result with a payload leaves that payload as
\* the content of the file of its id, and no call that succeeds changes
\* the file of an id but an accepted result for it (so it holds the payload
\* of the most recent one); storing a payload a second time leaves the
\* content as it was, and leaves the files, the ledger and done as the
\* first store left them.
C16_StoreIdempotentLastWins ==
    [][/\ AcceptStep => PayloadStored
       /\ \A name \in DOMAIN files :
            (name \in DOMAIN files' /\ files'[name] # files[name]
             /\ ~last'.err) =>
                AcceptStep /\ name = FileOf(files, last'.in.ID)
       /\ DuplicateStore =>
            /\ files' = files
            /\ last'.in.ID \notin DOMAIN last'.mid
            /\ done' = done]_vars

\* the step is a call of Work by the client c1 ("w1") whose answer it gets
CallOfW1 ==
    /\ last'.op = "work"
    /\ runs = 0 /\ runs' = 0
    /\ last'.in = held["c1"]
    /\ reply["c1"] = NoReply
    /\ reply'["c1"] = last'.out
    /\ Identity("c1") \in DOMAIN workers'

ScenarioId == <<"a", "-", "0">>

\* C17 as stated, on the table {(a, a.com)} with -s 1 and -m 10 and an
\* empty data directory: the first call of w1, with no result, puts w1 in
\* the registry and returns a-0 with the URL a.com; its call with 5 bytes
\* for a-0 puts a-0 back with the URL www.a.com and returns it again; its
\* call with 12 bytes for a-0 writes the file, leaves done = 1 and the
\* ledger empty, and returns the empty id.
C17_EndToEndScenario ==
    [][CallOfW1 =>
         /\ (last'.in.ID = EmptyStr /\ workers = EmptyMap
              /\ DOMAIN work = {ScenarioId} /\ done = 0) =>
                /\ DOMAIN workers' = {Identity("c1")}
                /\ last'.out.ID = ScenarioId
                /\ last'.out.URL = UrlACom
         /\ (last'.in.ID = ScenarioId /\ last'.in.Data = Bytes5
              /\ last'.in.URL = UrlACom /\ work = EmptyMap /\ done = 0) =>
                /\ files' = files /\ done' = 0
                /\ last'.mid = MapSet(EmptyMap, ScenarioId,
                                       Item(ScenarioId, UrlWwwACom))
                /\ last'.out.ID = ScenarioId
                /\ last'.out.URL = UrlWwwACom
         /\ (last'.in.ID = ScenarioId /\ last'.in.Data = Bytes12
              /\ work = EmptyMap /\ done = 0 /\ ~last'.err) =>
                /\ files' = MapSet(files, outputFileName(ScenarioId), Bytes12)
                /\ done' = 1
                /\ work' = EmptyMap
                /\ last'.out.ID = EmptyStr]_vars

\* the path leads into the data directory: on a disk without files the
\* look-up comes to a path below it
InsideDataDir(name) ==
    LET r == Lookup(EmptyMap, name)
    IN  IsPrefixOf(DataDirPath, r.path) /\ Len(r.path) > Len(DataDirPath)

\* C18 as stated: whatever ID a client reports, the file store writes for
\* it is inside the data directory.
C18_FileInsideDataDir ==
    (call.fn = "outputFileName" /\ call.n = 1) => InsideDataDir(call.res)

\* C19 as stated: when the write of store fails, the file of the reported
\* id is as it was before the call (missing, or with its previous content)
\* or holds the whole payload; and when main has loaded, every result file
\* it counted as done holds a whole accepted payload, not a part of one.
C19_WriteIsAtomic ==
    [][/\ (last'.op = "work" /\ runs' = runs /\ last'.err) =>
            \/ files' = files
            \/ files' = MapSet(files, FileOf(files, last'.in.ID),
                               last'.in.Data)
       /\ (runs' = runs + 1 /\ phase' = "serving") =>
            \A X \in TableIds(cfg) :
                (ResultFile(files', X) /\ X \notin DOMAIN work') =>
                    /\ Len(files'[FileOf(files', X)]) >= cfg.minDataLen
                    /\ Len(files'[FileOf(files', X)]) > 0]_vars

\* the effects of the outcomes os of a call on the files, done and the
\* ledger, with the answers: the outcomes less the registry
Effects(os) ==
    { [files |-> o.files, done |-> o.done, work |-> o.work, out |-> o.out,
       err |-> o.err] : o \in os }

\* the requests the clients hold, the identities they report and the
\* registries of such identities
HeldRequests == UNION { Requests(c) : c \in Conns }
Identities == { Identity(c) : c \in Conns }
Registries == { [k \in ks |-> k] : ks \in SUBSET Identities }

\* C20: within a run the registry only grows, and every call of Work, also
\* one that fails, leaves its caller's WorkerID in it; from the files, the
\* ledger and done of any state, the effects a request can have on them,
\* with the answers, are for either WorkerID and any registry those it has
\* for a caller without a WorkerID on an empty registry.
C20_RegistryObservational ==
    /\ [][runs' = runs =>
            /\ \A k \in DOMAIN workers :
                 k \in DOMAIN workers' /\ workers'[k] = workers[k]
            /\ last'.op = "work" =>
                 \E conn \in Conns :
                    /\ last'.in \in Requests(conn)
                    /\ workers' = Register(workers, Identity(conn))
                    /\ Identity(conn) \in DOMAIN workers']_vars
    /\ [](\A in \in HeldRequests :
            \A wid \in Identities, ws \in Registries :
                Effects(Handler(cfg, files, work, ws, done, wid, in))
                  = Effects(Handler(cfg, files, work, EmptyMap, done,
                                    EmptyStr, in)))

\* C20: a call by a worker not yet in the registry failed in store, and the
\* worker is in the registry, beside the other
C20_Witness ==
    /\ last.op = "work"
    /\ last.err
    /\ DOMAIN workers = { Identity(c) : c \in Conns }
    /\ \E c \in Conns : held[c] = last.in
    /\ runs = 1

\* C21: Work takes in the reported result before it looks for work: the id
\* of a result it accepts is not in the ledger it looks in and is not the
\* id it returns; the unit of a too short result is in that ledger, with
\* the toggled URL, and is the unit returned when nothing else is there.
C21_IntakeBeforeAssignment ==
    (last.op = "work" /\ ~last.err /\ last.in.ID # EmptyStr) =>
        IF Len(last.in.Data) >= cfg.minDataLen
        THEN /\ last.in.ID \notin DOMAIN last.mid
             /\ last.out.ID # last.in.ID
        ELSE /\ last.in.ID \in DOMAIN last.mid
             /\ DOMAIN last.mid = {last.in.ID} =>
                  /\ last.out.ID = last.in.ID
                  /\ last.out.URL = ToggleWww(last.in.URL)

\* C21: the result of a unit that main had put in the ledger again was
\* accepted, and the same call returned the other unit
C21_Witness ==
    /\ last.op = "work"
    /\ ~last.err
    /\ runs = 1
    /\ last.in.ID # EmptyStr
    /\ Len(last.in.Data) >= cfg.minDataLen
    /\ hist.accepted = {last.in.ID}
    /\ last.out.ID # EmptyStr
    /\ last.out.ID # last.in.ID
    /\ DOMAIN work = {}

\* the step is a call of Work that, after the server was started again,
\* accepts a result for an id that is in the ledger
AcceptOfRecreated ==
    /\ AcceptStep
    /\ runs >= 1
    /\ last'.in.ID \in DOMAIN work

\* C22 as stated: such a call stores and counts the result and takes the
\* id out of the ledger before it looks for work, leaving the other entries
\* as they were; and an id whose result was accepted in this way is not
\* returned by any later call of this run.
C22_AcceptedRecreatedNeverAgain ==
    [][/\ AcceptOfRecreated =>
            /\ PayloadStored
            /\ done' = done + 1
            /\ last'.mid = MapDelete(work, last'.in.ID)
            /\ last'.in.ID \notin DOMAIN work'
            /\ last'.out.ID # last'.in.ID
       /\ (last'.op = "work" /\ runs' = runs /\ last'.out.ID # EmptyStr) =>
            last'.out.ID \notin hist.recreated]_vars

\* the pages file cannot be read: none is named, the one named cannot be
\* opened, or reading it as CSV fails
Unreadable ==
    \/ cfg.file.kind # "text"
    \/ ReadAll(cfg.file.text).err # "nil"

\* a row of the pages file has no target
NoTarget == \E i \in 1..Len(cfg.pages) : Len(cfg.pages[i]) < 2

\* a row of the pages file has a target that does not parse as a URL
BadTable ==
    \E i \in 1..Len(cfg.pages) :
        Len(cfg.pages[i]) >= 2 /\ ~UrlParse(cfg.pages[i][2]).ok

\* no call of Work was answered, no worker is registered and no unit was
\* handed out
NothingServed ==
    /\ last.op = "start"
    /\ workers = EmptyMap
    /\ hist.returned = {}
    /\ \A c \in Conns : held[c] = NoBrowse /\ reply[c] = NoReply

\* the ledger is all of main's work: a unit for every id of the pages file
\* for which main's os.Stat says "not exist", and no other
WholeLedger ==
    /\ \A X \in TableIds(cfg) : X \in DOMAIN work <=> ~FileExists(files, X)
    /\ DOMAIN work \subseteq TableIds(cfg)

\* C23: with a pages file that cannot be read (none named, none that can
\* be opened, one whose reading fails) and with a row that does not parse
\* or has no target, the process is stopped before it has any ledger and
\* before it serves: no call of Work is answered, the ledger is empty, done
\* is 0 and no unit is handed out.  With a port that is taken it is stopped
\* before it serves as well, with the whole of main's work in its ledger
\* and none of it handed out.  Otherwise the first call of Work a process
\* serves finds all of main's work, a unit for every id of the pages file for
\* which main's os.Stat says "not exist", and within a process the ledger
\* then changes by calls of Work only.
C23_LoaderBeforeServing ==
    /\ []((Unreadable \/ BadTable \/ NoTarget) =>
            /\ phase = IF ~Unreadable /\ NoTarget THEN "panic" ELSE "fatal"
            /\ work = EmptyMap /\ done = 0
            /\ NothingServed)
    /\ [](~cfg.listen =>
            /\ phase \in {"fatal", "panic"}
            /\ NothingServed
            /\ (~(Unreadable \/ BadTable \/ NoTarget) =>
                    phase = "fatal" /\ WholeLedger))
    /\ [][/\ (last.op = "start" /\ last'.op = "work") =>
               /\ phase = "serving"
               /\ WholeLedger
          /\ (runs' = runs /\ work' # work) => last'.op = "work"]_vars

\* C23: the pages file has a first line of two fields and a second of one,
\* so reading it fails, and the process was started a second time
C23_Witness ==
    /\ cfg.file.kind = "text"
    /\ ReadAll(PagesText(<<Row(StrA, UrlACom)>>)).err = "nil"
    /\ cfg.file.text = PagesText(<<Row(StrA, UrlACom)>>) \o StrB \o <<"\n">>
    /\ ReadAll(cfg.file.text).err = "ErrFieldCount"
    /\ phase = "fatal"
    /\ runs = 1
    /\ work = EmptyMap

\* C24: a call of Work that reports a result with an empty payload counts
\* it only when minDataLen is 0 or less; it then leaves the files as they
\* are, without an error, and done one more.
C24_EmptyPayloadCountedNotWritten ==
    [][(ReportStep /\ runs' = runs /\ Len(last'.in.Data) = 0) =>
          /\ files' = files
          /\ ~last'.err
          /\ IF cfg.minDataLen <= 0
             THEN done' = done + 1 /\ last'.in.ID \notin DOMAIN last'.mid
             ELSE done' = done]_vars

\* C24: with -m 0 the empty result of the only unit was counted, and the
\* data directory holds no file
C24_Witness ==
    /\ last.op = "work"
    /\ last.in.ID # EmptyStr
    /\ last.in.Data = << >>
    /\ cfg.minDataLen = 0
    /\ done = 1
    /\ files = EmptyMap
    /\ DOMAIN work = {}
    /\ last.out.ID = EmptyStr

\* C25 as stated: the ledger, the registry and done change only by a step
\* of the goroutine that holds the lock; the progress function reads them
\* with the lock held, has released the lock when it formats and prints
\* its line, and does not hold it while it sleeps.
C25_LockOnlyForSnapshot ==
    /\ [][(runs' = runs
            /\ (work' # work \/ workers' # workers \/ done' # done)) =>
               lock \in Conns /\ pc'[lock] # pc[lock]]_vars
    /\ [](ppc = "check" => lock = "progress")
    /\ [](ppc = "print" => lock # "progress")
    /\ [](ppc = "sleep" => lock # "progress")

\* C26: a call of Work whose request has an empty ID, whatever its URL and
\* Data, takes nothing in: it leaves the files and done as they are and
\* looks for work in the ledger as it found it, so that the ledger changes
\* by the removal of the unit it returns, if any, and by nothing else.
C26_EmptyIdNoIntake ==
    [][(last'.op = "work" /\ last'.in.ID = EmptyStr) =>
          /\ files' = files
          /\ done' = done
          /\ ~last'.err
          /\ last'.mid = work
          /\ IF DOMAIN work = {}
             THEN work' = work /\ last'.out.ID = EmptyStr
             ELSE /\ last'.out.ID \in DOMAIN work
                  /\ work' = MapDelete(work, last'.out.ID)]_vars

\* C26: a request with an empty ID came with a URL and a payload long
\* enough to be accepted, and was answered with the unit
C26_Witness ==
    /\ last.op = "work"
    /\ last.in.ID = EmptyStr
    /\ last.in.URL = UrlWwwACom
    /\ Len(last.in.Data) >= cfg.minDataLen
    /\ Len(last.in.Data) > 0
    /\ last.out.ID # EmptyStr
    /\ done = 0
    /\ files = EmptyMap
    /\ DOMAIN work = {}

\* C27: the client starts with an empty ID and no answer on its way.  A
\* call that fails leaves what every client holds and every answer on its
\* way as they were, so the client sends the same Browse again.  An answer
\* is on its way to a client only from a call without error that sent the
\* Browse the client holds.  The Browse a client holds changes only when
\* the answer reaches it, and then to that answer with the ID, URL, Timeout
\* and AllTraffic it was given (the sentinel as it came, with its empty
\* ID).  A request that reports a unit is the Browse some client holds,
\* sent while no answer is on its way to that client: once per answer.
C27_WorkerProtocol ==
    /\ \A c \in Conns : held[c].ID = EmptyStr /\ reply[c] = NoReply
    /\ [][/\ (last'.op = "work" /\ last'.err) =>
                held' = held /\ reply' = reply
          /\ (last'.op = "work" /\ last'.in.ID # EmptyStr) =>
                \E c \in Conns : last'.in = held[c] /\ reply[c] = NoReply
          /\ \A c \in Conns :
                (reply'[c] # reply[c] /\ reply'[c] # NoReply) =>
                  /\ last'.op = "work"
                  /\ ~last'.err
                  /\ reply[c] = NoReply
                  /\ last'.in = held[c]
                  /\ reply'[c] = last'.out
                  /\ held' = held
          /\ \A c \in Conns :
                held'[c] # held[c] =>
                  /\ last'.op = "deliver"
                  /\ reply[c] # NoReply /\ reply'[c] = NoReply
                  /\ \A d \in Conns \ {c} : held'[d] = held[d]
                  /\ [held'[c] EXCEPT !.Data = << >>] =
                       [reply[c] EXCEPT !.Data = << >>]
                  /\ reply[c].ID = EmptyStr => held'[c] = reply[c]]_vars

\* C27: a client has reported the unit it held, the answer has reached it
\* and it holds the unit and the target of the answer, while the other
\* client still
\* holds the sentinel it was sent
C27_Witness ==
    /\ last.op = "deliver"
    /\ ~last.err
    /\ last.in.ID # EmptyStr
    /\ last.out.ID # EmptyStr
    /\ last.out.ID # last.in.ID
    /\ \E c \in Conns :
         /\ held[c].ID = last.out.ID
         /\ held[c].URL = last.out.URL
         /\ \E d \in Conns \ {c} :
              held[d] = Browse(EmptyStr, EmptyStr, cfg.timeout, << >>, FALSE)

C29_OneHolderPerUnit ==
    /\ \A c, d \in Conns :
         (c # d /\ AssignedTo(c) # EmptyStr) => AssignedTo(c) # AssignedTo(d)
    /\ \A c \in Conns :
         AssignedTo(c) # EmptyStr => AssignedTo(c) \notin DOMAIN work

\* C29: a unit was put back after a too short report, handed out again and
\* has reached its client, while the other client holds the other unit
C29_Witness ==
    /\ last.op = "deliver"
    /\ last.in.ID # EmptyStr
    /\ ~Acceptable(cfg, last.in)
    /\ last.out.ID = last.in.ID
    /\ \E c, d \in Conns :
         /\ c # d
         /\ held[c].ID = last.out.ID
         /\ held[d].ID # EmptyStr
         /\ held[d].ID # held[c].ID
    /\ DOMAIN work = {}

\* C30: whatever the clients send, every id in the ledger is an id of the
\* table's units, and so is every id whose report was counted in done.
C30_LedgerIdsFromTable ==
    /\ DOMAIN work \subseteq TableIds(cfg)
    /\ hist.accepted \subseteq TableIds(cfg)

\* C31: when main has created the work (no call of Work answered yet), the
\* number of units in the ledger plus done is rows times samples, the total
\* the progress function compares done with, for every table.
C31_LoaderAccountsForTotal ==
    (last.op = "start" /\ phase = "serving") =>
        Cardinality(DOMAIN work) + done = Total(cfg)

\* C32: when main starts again after a run in which done had reached the
\* total, it finds a result on disk for every unit: it creates no work and
\* its done is the total again, whatever the minimum length.
C32_RestartAfterAllDone ==
    [][(runs' = runs + 1 /\ done = Total(cfg) /\ phase # "fatal") =>
          (DOMAIN work' = {} /\ done' = Total(cfg))]_vars

\* C33: in a run in which every answer reaches its client and the server is
\* not restarted, done never goes down, goes up by one at a time, and is
\* never more than rows times samples.
C33_DoneMonotoneAndBounded ==
    /\ [](done <= Total(cfg))
    /\ [][done' = done \/ done' = done + 1]_vars

\* C33: done has reached the total of a two-row table and a client that
\* reported has been told that there is no work, with done as it was
C33_Witness ==
    /\ phase = "serving"
    /\ Total(cfg) = 2
    /\ done = Total(cfg)
    /\ Cardinality(hist.accepted) = 2
    /\ last.op = "work"
    /\ last.in.ID = EmptyStr
    /\ last.out.ID = EmptyStr

\* the goroutine of the call on conn is between lock.Lock() and its return
InSection(conn) == pc[conn] \in {"register", "intake", "find"}

\* C34: the lock is held only by a goroutine inside its critical section,
\* which can take its next step, and a call that has returned (with a unit,
\* with the sentinel or with an error of store) does not hold it; and
\* under fair scheduling every call that waits for the lock, and every
\* call that holds it, returns, unless the process exits first.
C34_WorkTerminatesAndUnlocks ==
    /\ [](\A c \in Conns : lock = c <=> InSection(c))
    /\ [](lock = "progress" <=> ppc \in {"check", "print"})
    /\ \A c \in Conns :
         (pc[c] = "wait") ~> (InSection(c) \/ phase = "exited")
    /\ \A c \in Conns :
         InSection(c) ~> (pc[c] = "idle" /\ lock # c)

\* C34: a call has returned an error of store and released the lock while
\* the call on the other connection waits
C34_Witness ==
    /\ last.op = "work"
    /\ last.err
    /\ lock = ""
    /\ \E c, d \in Conns : pc[c] = "idle" /\ pc[d] = "wait"

\* C35: the step by which the process exits with status 0 is taken by the
\* progress function with the lock in its hands, and at that moment no
\* call of Work is between lock.Lock() and its return, so none is writing
\* a result.
C35_ExitUnderLock ==
    [][(phase' = "exited" /\ phase # "exited") =>
          /\ lock = "progress"
          /\ lock' = "progress"
          /\ \A c \in Conns : ~InSection(c)]_vars

\* C35: the process has exited after a result was written, the progress
\* function holding the lock
C35_Witness ==
    /\ phase = "exited"
    /\ lock = "progress"
    /\ DOMAIN files # {}
    /\ done = Total(cfg)

\* C36: whatever the clients send, every item of the ledger is under the
\* key that is its ID, and no key is the empty string; an answer with an
\* empty ID is given only when the ledger is empty after the intake, and an
\* answer with a unit has the ID of the key that the call removes.
C36_LedgerKeyedByOwnId ==
    /\ [](\A k \in DOMAIN work : k # EmptyStr /\ work[k].ID = k)
    /\ [][(last'.op = "work" /\ ~last'.err /\ runs' = runs) =>
            IF last'.out.ID = EmptyStr
            THEN DOMAIN last'.mid = {} /\ work' = last'.mid
            ELSE /\ last'.out.ID \in DOMAIN last'.mid
                 /\ work' = MapDelete(last'.mid, last'.out.ID)]_vars

\* C36: a too short report under an id that is not in the table was put
\* into the ledger under that id and handed out by the same call
C36_Witness ==
    /\ last.op = "work"
    /\ ~last.err
    /\ last.in.ID = StrX
    /\ StrX \in DOMAIN last.mid
    /\ last.mid[StrX].ID = StrX
    /\ last.out.ID = StrX
    /\ StrX \notin DOMAIN work

\* the names main's loop sends: the entries that are files named *.pcap
Matching == { pool.entries[k].name :
                k \in { j \in 1..Len(pool.entries) : Matches(pool.entries[j]) } }

\* C37: no file is extracted twice or by two workers at once, and only a
\* matching file is; the channel is closed only when main's loop is past
\* the last entry; "done" is logged only when every worker has returned
\* and every matching file was extracted once; and the run ends, with
\* "done" or with the log.Fatalf of an extraction that failed.
C37_PoolExtractsEachOnce ==
    /\ [](\A f \in PoolNames : pool.count[f] <= 1)
    /\ [](\A f \in PoolNames : pool.count[f] = 1 => f \in Matching)
    /\ [](\A v, w \in 1..pool.n :
            (v # w /\ pool.wpc[v] = "extract" /\ pool.wpc[w] = "extract") =>
                pool.wfile[v] # pool.wfile[w])
    /\ [](pool.closed => pool.i > Len(pool.entries))
    /\ [](pool.mpc = "done" =>
            /\ \A w \in 1..pool.n : pool.wpc[w] = "returned"
            /\ \A f \in Matching : pool.count[f] = 1
            /\ pool.extracted = Cardinality(Matching))
    /\ <>(pool.mpc \in {"done", "fatal"})

=============================================================================
